---- MODULE Spec2Model ----
(***************************************************************************)
(* Post-processing pipeline of the renderer (histogram, auto exposure,     *)
(* median filter, and the kernels' buffer accesses), modelled from         *)
(* src/unnamed/part_001 (the post-processing kernels), src/src/init.cu     *)
(* (startup state and launch sizes) and src/src/kernel.cuh.                *)
(*                                                                         *)
(* The module holds one specification per part of the pipeline:            *)
(*   SpecSort      sort9, the 9-element median network                     *)
(*   SpecExposure  AutoExposure, frame after frame, from the startup state *)
(*   SpecHist      Histogram2, every interleaving of its threads           *)
(*   SpecAccess    the image-buffer coordinates each kernel thread issues  *)
(*   SpecMedian    MedianFilter, block by block, on small images           *)
(* Every specification leaves the variables of the others at rest.         *)
(***************************************************************************)
EXTENDS Integers, Sequences, FiniteSets, TLC

VARIABLES
    \* sort9
    lumas,          \* the 9 luminances handed to sort9 (position -> luminance)
    p,              \* LumaIdxPair p[9], before and after sort9
    sortpc,         \* "unsorted" | "sorted"
    \* AutoExposure
    exposure,       \* float exposure[4] on the device: EV, smoothed average, smoothed bright, unused
    frames,         \* number of AutoExposure invocations so far
    ae,             \* the locals of the last AutoExposure invocation (a record)
    \* Histogram2
    histSize,       \* Int2 size of the launch, a record [x, y]
    pixels,         \* InBuffer: pixel <<x, y>> -> luminance (the largest color channel)
    histogram,      \* uint histogram[64]
    histDone,       \* the in-bounds threads (global idx <<x, y>>) that have finished
    histOut,        \* the blocks whose threads outside the image have returned
    \* buffer accesses of one thread of one kernel
    accKernel,      \* the kernel launched
    accSize,        \* Int2 size of the launch, a record [x, y]
    accThread,      \* the thread that ran, [bx, by, tx, ty], or <<>> before it has
    accLoads,       \* the image-buffer loads it issued: records [buffer, x, y, size]
    accStores,      \* the image-buffer stores it issued
    \* MedianFilter
    medSize,        \* Int2 size of the launch, a record [x, y]
    boundaryMode,   \* what a surface load outside the buffer returns: "clamp" | "zero"
    colorInput,     \* colorBuffer as the stage received it: pixel -> [color, mask]
    colorBuffer,    \* colorBuffer [in/out]
    normalDepthBuffer,  \* pixel -> [normal, depth]
    medPhase,       \* block -> "launched" | "loaded" | "stored"
    sharedBuffer,   \* block -> its tile, LDS sharedBuffer[ldsBlockdim * ldsBlockdim]
    blended,        \* pixel -> finalColor as blended, before the nan handling
    \* DownScale4
    downImage,      \* InBuffer: source pixel <<x, y>> -> value of one channel
    downShared,     \* Float4 sharedBuffer[8][8], the cells of one 4 x 4 group
    downPc,         \* thread <<tx, ty>> -> "load" | "reduce1" | "reduce2" | "done"
    downFree,       \* the threads that are scheduled freely
    downOut,        \* <<value stored to the output pixel>>, <<>> before the store
    downRaces,      \* the reads made before the owner's store: [reader, cell, level]
    \* the bloom chain: DownScale4 twice, BloomGuassian twice, Bloom
    blSize,         \* the render buffer is blSize x blSize pixels
    blMode,         \* what a surface load outside the buffer returns: "clamp" | "zero"
    blOrder,        \* how DownScale4's unordered threads ran: "phased" | "ahead"
    blTile,         \* what DownScale4's shared tile held at launch
    blBright,       \* exposure[2], the smoothed bright luminance
    blFrame,        \* colorBuffer as the chain received it: pixel -> gray level
    blColor4,       \* colorBuffer4
    blColor16,      \* colorBuffer16
    blBloom4,       \* bloomBuffer4
    blBloom16,      \* bloomBuffer16
    blOut,          \* colorBuffer after Bloom
    blStage,        \* "frame" | "down4" | "down16" | "blur4" | "blur16" | "done"
    \* ToneMapping
    toneColor,      \* the pixel of colorBuffer the thread loads, three binary32 channels
    toneExposure,   \* exposure[0]
    toneStored,     \* the three channels the thread stores, <<>> before it has
    \* RayTracer::init and Buffer2D::init
    initFunction,   \* the function that runs: "RayTracer::init" | "Buffer2D::init"
    initPc,         \* the index of its next checked call
    initLog,        \* the calls made so far: records [call, line, code]
    initExit,       \* <<exit status>> once the process has exited, <<>> before
    \* CopyToOutput
    copySize,       \* Int2 outSize, a record [x, y]
    copyThread,     \* the thread that runs, [bx, by, tx, ty]
    copyColor,      \* the pixel of outputResColor at its idx, three binary32 channels
    copyDone,       \* whether the thread has returned
    copyWritten,    \* <<[x, y, bytes]>>: the pixel it wrote and its three bytes, or <<>>
    \* MedianFilter, the threads of one block around __syncthreads()
    syncSize,       \* Int2 size of the launch, a record [x, y]
    syncFree,       \* the threads (by id) that are scheduled freely
    syncPc,         \* id -> "load1" | "load2" | "barrier" | "guard" | "read" | "done"
    syncWriters,    \* tile cell -> the stores made to it: <<id, 1 | 2>>
    syncReleased,   \* whether the barrier has let the block through
    syncEarly,      \* the threads that read the tile before every thread was through
    \* BloomGuassian, the threads of one block around __syncthreads()
    gaussBarrier,   \* what the barrier does with returned threads: "exit_arrives" | "all_arrive"
    gaussFree,      \* the threads <<threadIdx.x, threadIdx.y>> that are scheduled freely
    gaussPc,        \* thread -> "store" | "guard" | "returned" | "barrier" | "conv" | "done"
    gaussStored,    \* the cells <<x, y>> of sharedBuffer that have been stored
    gaussReleased,  \* whether the barrier has let the waiting threads through
    gaussEarly,     \* <<thread, cell>>: the reads of a cell not yet stored
    \* MedianFilter, the final blend of one thread
    blendOrig,      \* colorValue, the pixel's own color
    blendMedian,    \* medianColor
    blendWeight,    \* weight, the blend factor
    blendFinal,     \* finalColor, <<>> before the blend
    \* LensFlarePred and LensFlare
    flareSize,      \* Int2 bufferDim, a record [x, y]
    flareMode,      \* what a load outside the buffer returns: "clamp" | "zero"
    flareSunUv,     \* Int2 sunUv, the sun's pixel <<x, y>>
    flareDepth,     \* depthBuffer: pixel -> depth
    flareInput,     \* colorBuffer as the stage received it: pixel -> gray level
    flareColor,     \* colorBuffer
    flarePc,        \* "pred" | "launched" | "skipped" | "done"
    \* BloomGuassian, the stores of a whole launch
    tileSize,       \* Int2 size of the launch, a record [x, y]
    tileRan,        \* the blocks <<blockIdx.x, blockIdx.y>> that have run
    tileStores,     \* output coordinate -> the threads [block, thread] that stored to it
    tileReads,      \* the indices <<x, y>> of sharedBuffer the convolutions have read
    \* RayTracer::init then RayTracer::cleanup, the device resources
    resPhase,       \* "init" | "cleanup" | "end"
    resPc,          \* the index of the next call of the phase
    resLive,        \* the resources that exist: created and not released
    resReleased,    \* the releases made so far: records [call, res, line, live]
    resExit         \* <<exit status>> once the process has exited, <<>> before

sortVars == <<lumas, p, sortpc>>
expVars  == <<exposure, frames, ae>>
histVars == <<histSize, pixels, histogram, histDone, histOut>>
accVars  == <<accKernel, accSize, accThread, accLoads, accStores>>
medVars  == <<medSize, boundaryMode, colorInput, colorBuffer, normalDepthBuffer,
              medPhase, sharedBuffer, blended>>
downVars == <<downImage, downShared, downPc, downFree, downOut, downRaces>>
bloomVars == <<blSize, blMode, blOrder, blTile, blBright, blFrame, blColor4, blColor16, blBloom4, blBloom16, blOut, blStage>>
toneVars == <<toneColor, toneExposure, toneStored>>
initVars == <<initFunction, initPc, initLog, initExit>>
copyVars == <<copySize, copyThread, copyColor, copyDone, copyWritten>>
syncVars == <<syncSize, syncFree, syncPc, syncWriters, syncReleased, syncEarly>>
gaussVars == <<gaussBarrier, gaussFree, gaussPc, gaussStored, gaussReleased, gaussEarly>>
blendVars == <<blendOrig, blendMedian, blendWeight, blendFinal>>
flareVars == <<flareSize, flareMode, flareSunUv, flareDepth, flareInput, flareColor, flarePc>>
tileVars == <<tileSize, tileRan, tileStores, tileReads>>
resVars == <<resPhase, resPc, resLive, resReleased, resExit>>
vars     == <<lumas, p, sortpc, exposure, frames, ae,
              histSize, pixels, histogram, histDone, histOut,
              accKernel, accSize, accThread, accLoads, accStores,
              medSize, boundaryMode, colorInput, colorBuffer, normalDepthBuffer,
              medPhase, sharedBuffer, blended,
              downImage, downShared, downPc, downFree, downOut, downRaces,
              blSize, blMode, blOrder, blTile, blBright, blFrame, blColor4, blColor16, blBloom4, blBloom16, blOut, blStage,
              toneColor, toneExposure, toneStored,
              initFunction, initPc, initLog, initExit,
              copySize, copyThread, copyColor, copyDone, copyWritten,
              syncSize, syncFree, syncPc, syncWriters, syncReleased, syncEarly,
              gaussBarrier, gaussFree, gaussPc, gaussStored, gaussReleased, gaussEarly,
              blendOrig, blendMedian, blendWeight, blendFinal,
              flareSize, flareMode, flareSunUv, flareDepth, flareInput, flareColor, flarePc,
              tileSize, tileRan, tileStores, tileReads,
              resPhase, resPc, resLive, resReleased, resExit>>

\* what each specification leaves alone
notSort == <<expVars, histVars, accVars, medVars, downVars, bloomVars, toneVars, initVars, copyVars, syncVars, gaussVars, blendVars, flareVars, tileVars, resVars>>
notExp  == <<sortVars, histVars, accVars, medVars, downVars, bloomVars, toneVars, initVars, copyVars, syncVars, gaussVars, blendVars, flareVars, tileVars, resVars>>
notHist == <<sortVars, expVars, accVars, medVars, downVars, bloomVars, toneVars, initVars, copyVars, syncVars, gaussVars, blendVars, flareVars, tileVars, resVars>>
notAcc  == <<sortVars, expVars, histVars, medVars, downVars, bloomVars, toneVars, initVars, copyVars, syncVars, gaussVars, blendVars, flareVars, tileVars, resVars>>
notMed  == <<sortVars, expVars, histVars, accVars, downVars, bloomVars, toneVars, initVars, copyVars, syncVars, gaussVars, blendVars, flareVars, tileVars, resVars>>
notDown == <<sortVars, expVars, histVars, accVars, medVars, bloomVars, toneVars, initVars, copyVars, syncVars, gaussVars, blendVars, flareVars, tileVars, resVars>>
notBloom == <<sortVars, expVars, histVars, accVars, medVars, downVars, toneVars, initVars, copyVars, syncVars, gaussVars, blendVars, flareVars, tileVars, resVars>>
notTone == <<sortVars, expVars, histVars, accVars, medVars, downVars, bloomVars, initVars, copyVars, syncVars, gaussVars, blendVars, flareVars, tileVars, resVars>>
notInit == <<sortVars, expVars, histVars, accVars, medVars, downVars, bloomVars, toneVars, copyVars, syncVars, gaussVars, blendVars, flareVars, tileVars, resVars>>
notCopy == <<sortVars, expVars, histVars, accVars, medVars, downVars, bloomVars, toneVars, initVars, syncVars, gaussVars, blendVars, flareVars, tileVars, resVars>>
notSync == <<sortVars, expVars, histVars, accVars, medVars, downVars, bloomVars, toneVars, initVars, copyVars, gaussVars, blendVars, flareVars, tileVars, resVars>>
notGauss == <<sortVars, expVars, histVars, accVars, medVars, downVars, bloomVars, toneVars, initVars, copyVars, syncVars, blendVars, flareVars, tileVars, resVars>>
notBlend == <<sortVars, expVars, histVars, accVars, medVars, downVars, bloomVars, toneVars, initVars, copyVars, syncVars, gaussVars, flareVars, tileVars, resVars>>
notFlare == <<sortVars, expVars, histVars, accVars, medVars, downVars, bloomVars, toneVars, initVars, copyVars, syncVars, gaussVars, blendVars, tileVars, resVars>>
notTile == <<sortVars, expVars, histVars, accVars, medVars, downVars, bloomVars, toneVars, initVars, copyVars, syncVars, gaussVars, blendVars, flareVars, resVars>>
notRes == <<sortVars, expVars, histVars, accVars, medVars, downVars, bloomVars, toneVars, initVars, copyVars, syncVars, gaussVars, blendVars, flareVars, tileVars>>

(***************************************************************************)
(* Floating point.  A float is an integer number of quanta (Unit quanta    *)
(* make 1.0), or one of three values that stand for +Infinity, -Infinity   *)
(* and NaN.  The infinities compare as the largest and smallest numbers;   *)
(* every comparison with NaN is false, as in IEEE 754.                     *)
(***************************************************************************)
Unit == 1000
PInf == 1000000000
NInf == -1000000000
NaN  == 2000000000

isnan(a) == a = NaN
isinf(a) == a = PInf \/ a = NInf
isfinite(a) == ~isnan(a) /\ ~isinf(a)

\* a < b and a > b on floats
FLt(a, b) == ~isnan(a) /\ ~isnan(b) /\ a < b
FGt(a, b) == ~isnan(a) /\ ~isnan(b) /\ a > b

FNeg(a) == IF isnan(a) THEN NaN ELSE IF a = PInf THEN NInf ELSE IF a = NInf THEN PInf ELSE 0 - a

FAdd(a, b) ==
    IF isnan(a) \/ isnan(b) THEN NaN
    ELSE IF isinf(a) /\ isinf(b) THEN (IF a = b THEN a ELSE NaN)
    ELSE IF isinf(a) THEN a
    ELSE IF isinf(b) THEN b
    ELSE a + b

FSub(a, b) == FAdd(a, FNeg(b))

\* integer quotient rounded toward zero (d > 0)
TruncDiv(x, d) == IF x >= 0 THEN x \div d ELSE 0 - ((0 - x) \div d)

Sign(a) == IF a > 0 THEN 1 ELSE IF a < 0 THEN -1 ELSE 0

\* a * b, both in quanta
FMul(a, b) ==
    IF isnan(a) \/ isnan(b) THEN NaN
    ELSE IF isinf(a) \/ isinf(b)
         THEN (IF a = 0 \/ b = 0 THEN NaN
               ELSE IF Sign(a) * Sign(b) > 0 THEN PInf ELSE NInf)
    ELSE TruncDiv(a * b, Unit)

\* a / b, both in quanta
FDiv(a, b) ==
    IF isnan(a) \/ isnan(b) THEN NaN
    ELSE IF isinf(a) /\ isinf(b) THEN NaN
    ELSE IF isinf(a) THEN (IF Sign(a) * (IF b < 0 THEN -1 ELSE 1) > 0 THEN PInf ELSE NInf)
    ELSE IF isinf(b) THEN 0
    ELSE IF b = 0 THEN (IF a = 0 THEN NaN ELSE IF a > 0 THEN PInf ELSE NInf)
    ELSE IF b > 0 THEN TruncDiv(a * Unit, b)
    ELSE TruncDiv((0 - a) * Unit, 0 - b)

\* clampf(a, lo, hi)
clampf(a, lo, hi) == IF FLt(a, lo) THEN lo ELSE IF FGt(a, hi) THEN hi ELSE a

(***************************************************************************)
(* sort9 and its helpers: the 3x3 median network of the median filter.     *)
(* A LumaIdxPair is a record [luma, idx].                                  *)
(***************************************************************************)
min(a, b) == IF FLt(a.luma, b.luma) THEN a ELSE b
max(a, b) == IF FGt(a.luma, b.luma) THEN a ELSE b

min3(v1, v2, v3) == min(min(v1, v2), v3)
max3(v1, v2, v3) == max(max(v1, v2), v3)

\* sort2(a, b) on the array q, at the positions a and b: swap when a.luma > b.luma
sort2(q, a, b) ==
    IF FGt(q[a].luma, q[b].luma)
    THEN [q EXCEPT ![a] = q[b], ![b] = q[a]]
    ELSE q

sort3(q, v1, v2, v3) == sort2(sort2(sort2(q, v2, v3), v1, v2), v2, v3)

\* sort9 without its last sort3(p[2], p[4], p[6])
sort9_NoLastMerge(q) ==
    LET q1 == sort3(q, 0, 1, 2)
        q2 == sort3(q1, 3, 4, 5)
        q3 == sort3(q2, 6, 7, 8)
        q4 == [q3 EXCEPT ![6] = max3(q3[0], q3[3], q3[6])]
        q5 == [q4 EXCEPT ![2] = min3(q4[2], q4[5], q4[8])]
    IN  sort3(q5, 1, 4, 7)

sort9(q) ==
    LET q1 == sort3(q, 0, 1, 2)
        q2 == sort3(q1, 3, 4, 5)
        q3 == sort3(q2, 6, 7, 8)
        q4 == [q3 EXCEPT ![6] = max3(q3[0], q3[3], q3[6])]
        q5 == [q4 EXCEPT ![2] = min3(q4[2], q4[5], q4[8])]
        q6 == sort3(q5, 1, 4, 7)
    IN  sort3(q6, 2, 4, 6)

\* the array MedianFilter hands to sort9: entry k carries luminance k and idx k
LumaIdxArray(l) == [k \in 0..8 |-> [luma |-> l[k], idx |-> k]]

(***************************************************************************)
(* AutoExposure.  Histogram mass is counted in units of 1/(10*area), so    *)
(* that fHist = hist/area is 10*hist units, darkThreshold 0.4 is 4*area    *)
(* units and brightThreshold 0.9 is 9*area units, all exact.  Luminances   *)
(* are floats in quanta.                                                   *)
(***************************************************************************)
\* exp2f(((float)i / (63 * 0.99999) - 0.75) / 0.1) for i = 0..63, in quanta
BinToLumTable ==
    <<6, 6, 7, 8, 9, 10, 11, 12, 13, 15, 17, 19, 21, 23, 26, 29,
      32, 36, 40, 45, 50, 56, 62, 69, 77, 86, 97, 108, 120, 134, 150, 167,
      187, 209, 233, 260, 290, 324, 361, 403, 450, 503, 561, 627, 699, 781, 872, 973,
      1086, 1212, 1353, 1511, 1687, 1883, 2102, 2346, 2619, 2924, 3264, 3643, 4067, 4540, 5068, 5657>>

BinToLum(i) == BinToLumTable[i + 1]

\* 10^(j/20) in quanta for j = -20..30: log10f is read off this table, rounded
\* down to a multiple of 0.05
Log10Steps ==
    <<100, 112, 126, 141, 158, 178, 200, 224, 251, 282, 316, 355, 398, 447, 501, 562,
      631, 708, 794, 891, 1000, 1122, 1259, 1413, 1585, 1778, 1995, 2239, 2512, 2818,
      3162, 3548, 3981, 4467, 5012, 5623, 6310, 7079, 7943, 8913, 10000, 11220, 12589,
      14125, 15849, 17783, 19953, 22387, 25119, 28184, 31623>>

log10f(x) ==
    IF isnan(x) \/ x < 0 THEN NaN
    ELSE IF x = 0 THEN NInf
    ELSE IF x = PInf THEN PInf
    ELSE (Cardinality({j \in 1..Len(Log10Steps) : Log10Steps[j] <= x}) - 21) * 50

\* the frame times AutoExposure is called with (milliseconds), and
\* expf(-deltaTime * 0.001) at each of them, in quanta
DeltaTimes == {0, 16, 693, 200000}

expfNegMilli(deltaTime) ==
    CASE deltaTime = 0 -> 1000
      [] deltaTime = 16 -> 984
      [] deltaTime = 693 -> 500
      [] deltaTime = 200000 -> 0

\* the first loop with a dark threshold of 1.0 in place of 0.4: no bucket is cut
RECURSIVE DarkLoop_NeverCut(_, _, _, _)
DarkLoop_NeverCut(histo, area, i, accu) ==
    IF i >= 64 THEN [i |-> i, accu |-> accu, broke |-> FALSE]
    ELSE LET accu1 == accu + 10 * histo[i]
             dark == accu1 - 10 * area
         IN  IF dark > 0
             THEN [i |-> i, accu |-> accu1, broke |-> TRUE]
             ELSE DarkLoop_NeverCut(histo, area, i + 1, accu1)

\* the first loop (dark cut line), from bucket i with accuHistArea = accu:
\* [i, accu, broke], i the bucket of the break (64 without one)
RECURSIVE DarkLoop(_, _, _, _)
DarkLoop(histo, area, i, accu) ==
    IF i >= 64 THEN [i |-> i, accu |-> accu, broke |-> FALSE]
    ELSE LET accu1 == accu + 10 * histo[i]
             dark == accu1 - 4 * area
         IN  IF dark > 0
             THEN [i |-> i, accu |-> accu1, broke |-> TRUE]
             ELSE DarkLoop(histo, area, i + 1, accu1)

\* the second loop with the whole last bucket accepted (no partial bucket at
\* the bright cut)
RECURSIVE BrightLoop_NoPartial(_, _, _, _, _, _, _)
BrightLoop_NoPartial(histo, area, i, accu, lumiSum, lumiSumArea, brightLum) ==
    IF i >= 64
    THEN [i |-> i, accu |-> accu, lumiSum |-> lumiSum, lumiSumArea |-> lumiSumArea,
          brightLum |-> brightLum, broke |-> FALSE]
    ELSE LET fHist == 10 * histo[i]
             lum == BinToLum(i)
             accu1 == accu + fHist
             bright == accu1 - 9 * area
         IN  IF bright > 0
             THEN [i |-> i, accu |-> accu1,
                   lumiSum |-> lumiSum + fHist * lum,
                   lumiSumArea |-> lumiSumArea + fHist,
                   brightLum |-> lum, broke |-> TRUE]
             ELSE BrightLoop_NoPartial(histo, area, i + 1, accu1,
                                       lumiSum + fHist * lum, lumiSumArea + fHist, brightLum)

\* the second loop (bright cut line), from bucket i:
\* [i, accu, lumiSum, lumiSumArea, brightLum, broke]
RECURSIVE BrightLoop(_, _, _, _, _, _, _)
BrightLoop(histo, area, i, accu, lumiSum, lumiSumArea, brightLum) ==
    IF i >= 64
    THEN [i |-> i, accu |-> accu, lumiSum |-> lumiSum, lumiSumArea |-> lumiSumArea,
          brightLum |-> brightLum, broke |-> FALSE]
    ELSE LET fHist == 10 * histo[i]
             lum == BinToLum(i)
             accu1 == accu + fHist
             bright == accu1 - 9 * area
         IN  IF bright > 0
             THEN LET partial == 9 * area - (accu1 - fHist)
                  IN  [i |-> i, accu |-> accu1,
                       lumiSum |-> lumiSum + partial * lum,
                       lumiSumArea |-> lumiSumArea + partial,
                       brightLum |-> lum, broke |-> TRUE]
             ELSE BrightLoop(histo, area, i + 1, accu1,
                             lumiSum + fHist * lum, lumiSumArea + fHist, brightLum)

\* lumiSum / lumiSumArea: mass units cancel, the quotient is a luminance
MassDiv(lumiSum, lumiSumArea) ==
    IF lumiSumArea = 0
    THEN (IF lumiSum = 0 THEN NaN ELSE IF lumiSum > 0 THEN PInf ELSE NInf)
    ELSE IF lumiSumArea > 0 THEN TruncDiv(lumiSum, lumiSumArea)
    ELSE TruncDiv(0 - lumiSum, 0 - lumiSumArea)

\* the eye adaption step: temp + (target - temp) * (1.0 - expf(-deltaTime * 0.001))
EyeAdaption_Overshoot(temp, target, deltaTime) ==
    FAdd(temp, FMul(FSub(target, temp), FAdd(Unit, expfNegMilli(deltaTime))))

EyeAdaption(temp, target, deltaTime) ==
    FAdd(temp, FMul(FSub(target, temp), FSub(Unit, expfNegMilli(deltaTime))))

\* the compensation curve with an offset of 0.97 in place of 1.03
ExposureCompensation_LowOffset(lumTemp) ==
    FSub(970, FDiv(2000, FAdd(log10f(FAdd(lumTemp, 1000)), 2000)))

\* EC = 1.03 - 2.0 / (log10f(lumTemp + 1.0) + 2.0)
ExposureCompensation(lumTemp) ==
    FSub(1030, FDiv(2000, FAdd(log10f(FAdd(lumTemp, 1000)), 2000)))

\* EV = 7.0 * EC / lumTemp
ExposureValue(lumTemp) == FDiv(FMul(7000, ExposureCompensation(lumTemp)), lumTemp)

\* aveLum = clampf(aveLum, 0.1, 10.0)
ClampAveLum(aveLum) == clampf(aveLum, 100, 10000)

\* brightLum is used as the second loop left it: no clamp
ClampBrightLum(brightLum) == brightLum

\* the kernel's locals when it returns, and the exposure it writes
AutoExposureRun(exp, histo, area, deltaTime) ==
    LET d == DarkLoop(histo, area, 0, 0)
        dark == d.accu - 4 * area
        sumArea1 == IF d.broke THEN dark ELSE 0
        sum1 == IF d.broke THEN dark * BinToLum(d.i) ELSE 0
        b == BrightLoop(histo, area, d.i, d.accu, sum1, sumArea1, 0)
        aveLum == ClampAveLum(MassDiv(b.lumiSum, b.lumiSumArea))
        brightLum == ClampBrightLum(b.brightLum)
        lumTemp == EyeAdaption(exp[2], aveLum, deltaTime)
        lumBrightTemp == EyeAdaption(exp[3], brightLum, deltaTime)
    IN  [valid |-> TRUE, histogram |-> histo, area |-> area, deltaTime |-> deltaTime,
         darkIdx |-> d.i, darkBroke |-> d.broke,
         brightIdx |-> b.i, brightBroke |-> b.broke,
         lumiSum |-> b.lumiSum, lumiSumArea |-> b.lumiSumArea,
         aveLum |-> aveLum, brightLum |-> brightLum,
         oldLum |-> exp[2], oldBright |-> exp[3],
         out |-> <<ExposureValue(lumTemp), lumTemp, lumBrightTemp, exp[4]>>]

AeNone ==
    [valid |-> FALSE, histogram |-> <<>>, area |-> 0, deltaTime |-> 0,
     darkIdx |-> 0, darkBroke |-> FALSE, brightIdx |-> 0, brightBroke |-> FALSE,
     lumiSum |-> 0, lumiSumArea |-> 0, aveLum |-> 0, brightLum |-> 0,
     oldLum |-> 0, oldBright |-> 0, out |-> <<>>]

\* float initExposureLum[4] = { 0.0f, 1.0f, 1.0f, 0.0f }
initExposureLum == <<0, Unit, Unit, 0>>

(***************************************************************************)
(* Every specification starts the variables of the others at rest.         *)
(***************************************************************************)
SortIdle ==
    /\ lumas = <<>>
    /\ p = <<>>
    /\ sortpc = "idle"

ExpIdle ==
    /\ exposure = <<0, 0, 0, 0>>
    /\ frames = 0
    /\ ae = AeNone

HistIdle ==
    /\ histSize = [x |-> 0, y |-> 0]
    /\ pixels = <<>>
    /\ histogram = <<>>
    /\ histDone = {}
    /\ histOut = {}

AccIdle ==
    /\ accKernel = "none"
    /\ accSize = [x |-> 0, y |-> 0]
    /\ accThread = <<>>
    /\ accLoads = {}
    /\ accStores = {}

MedIdle ==
    /\ medSize = [x |-> 0, y |-> 0]
    /\ boundaryMode = "none"
    /\ colorInput = <<>>
    /\ colorBuffer = <<>>
    /\ normalDepthBuffer = <<>>
    /\ medPhase = <<>>
    /\ sharedBuffer = <<>>
    /\ blended = <<>>

DownIdle ==
    /\ downImage = <<>>
    /\ downShared = <<>>
    /\ downPc = <<>>
    /\ downFree = {}
    /\ downOut = <<>>
    /\ downRaces = {}

BloomIdle ==
    /\ blSize = 0
    /\ blMode = "none"
    /\ blOrder = "none"
    /\ blTile = 0
    /\ blBright = 0
    /\ blFrame = <<>>
    /\ blColor4 = <<>>
    /\ blColor16 = <<>>
    /\ blBloom4 = <<>>
    /\ blBloom16 = <<>>
    /\ blOut = <<>>
    /\ blStage = "idle"

ToneIdle ==
    /\ toneColor = <<>>
    /\ toneExposure = <<>>
    /\ toneStored = <<>>

InitIdle ==
    /\ initFunction = "none"
    /\ initPc = 0
    /\ initLog = <<>>
    /\ initExit = <<>>

CopyIdle ==
    /\ copySize = [x |-> 0, y |-> 0]
    /\ copyThread = <<>>
    /\ copyColor = <<>>
    /\ copyDone = FALSE
    /\ copyWritten = <<>>

SyncIdle ==
    /\ syncSize = [x |-> 0, y |-> 0]
    /\ syncFree = {}
    /\ syncPc = <<>>
    /\ syncWriters = <<>>
    /\ syncReleased = FALSE
    /\ syncEarly = {}

GaussIdle ==
    /\ gaussBarrier = "none"
    /\ gaussFree = {}
    /\ gaussPc = <<>>
    /\ gaussStored = {}
    /\ gaussReleased = FALSE
    /\ gaussEarly = {}

BlendIdle ==
    /\ blendOrig = <<>>
    /\ blendMedian = <<>>
    /\ blendWeight = 0
    /\ blendFinal = <<>>

FlareIdle ==
    /\ flareSize = <<>>
    /\ flareMode = "none"
    /\ flareSunUv = <<>>
    /\ flareDepth = <<>>
    /\ flareInput = <<>>
    /\ flareColor = <<>>
    /\ flarePc = "idle"

TileIdle ==
    /\ tileSize = <<>>
    /\ tileRan = {}
    /\ tileStores = <<>>
    /\ tileReads = {}

ResIdle ==
    /\ resPhase = "none"
    /\ resPc = 0
    /\ resLive = {}
    /\ resReleased = <<>>
    /\ resExit = <<>>

(***************************************************************************)
(* SpecSort: sort9 applied to every array of 9 luminances over 0..MaxLuma. *)
(***************************************************************************)
MaxLuma == 2

InitSort ==
    /\ lumas \in [0..8 -> 0..MaxLuma]
    /\ p = LumaIdxArray(lumas)
    /\ sortpc = "unsorted"
    /\ ExpIdle /\ HistIdle /\ AccIdle /\ MedIdle /\ DownIdle /\ BloomIdle /\ ToneIdle /\ InitIdle /\ CopyIdle /\ SyncIdle /\ GaussIdle /\ BlendIdle /\ FlareIdle /\ TileIdle /\ ResIdle

Sort9Call ==
    /\ sortpc = "unsorted"
    /\ p' = sort9(p)
    /\ sortpc' = "sorted"
    /\ UNCHANGED <<lumas, notSort>>

NextSort == Sort9Call

SpecSort == InitSort /\ [][NextSort]_vars

(***************************************************************************)
(* SpecExposure: the exposure state from startup through MaxFrames calls   *)
(* of AutoExposure, each with a valid histogram (its counters sum to       *)
(* area, 1 <= area <= MaxArea, mass in the buckets HistBuckets) and a      *)
(* frame time of DeltaTimes.                                               *)
(***************************************************************************)
MaxFrames == 2
MaxArea == 5
HistBuckets == {0, 47, 63}

RECURSIVE SumOver(_, _)
SumOver(f, S) ==
    IF S = {} THEN 0
    ELSE LET x == CHOOSE y \in S : TRUE IN f[x] + SumOver(f, S \ {x})

\* the valid histograms of the model, each with its area: counters summing to area
ValidHistograms ==
    UNION { { [area |-> a, histogram |-> [i \in 0..63 |-> IF i \in HistBuckets THEN g[i] ELSE 0]] :
                g \in { q \in [HistBuckets -> 0..a] : SumOver(q, HistBuckets) = a } } :
            a \in 1..MaxArea }

InitExposure ==
    /\ exposure = initExposureLum
    /\ frames = 0
    /\ ae = AeNone
    /\ SortIdle /\ HistIdle /\ AccIdle /\ MedIdle /\ DownIdle /\ BloomIdle /\ ToneIdle /\ InitIdle /\ CopyIdle /\ SyncIdle /\ GaussIdle /\ BlendIdle /\ FlareIdle /\ TileIdle /\ ResIdle

\* AutoExposure <<<1, 1>>> (d_exposure, d_histogram, area, deltaTime)
AutoExposure(histo, area, deltaTime) ==
    /\ frames < MaxFrames
    /\ ~ae.valid
    /\ ae' = AutoExposureRun(exposure, histo, area, deltaTime)
    /\ exposure' = ae'.out
    /\ frames' = frames + 1
    /\ UNCHANGED notExp

\* the kernel has returned: its locals are gone, the exposure state stays for the
\* next frame
FrameEnd ==
    /\ ae.valid
    /\ ae' = AeNone
    /\ UNCHANGED <<exposure, frames, notExp>>

NextExposure ==
    \/ \E in \in ValidHistograms : \E deltaTime \in DeltaTimes :
           AutoExposure(in.histogram, in.area, deltaTime)
    \/ FrameEnd

SpecExposure == InitExposure /\ [][NextExposure]_vars

(***************************************************************************)
(* Histogram2.  Launch geometry, the bucket of a luminance, and atomicInc. *)
(***************************************************************************)
\* blockDim = dim3(8, 8, 1)
blockDim == [x |-> 8, y |-> 8]

divRoundUp(a, b) == (a + b - 1) \div b

\* gridDim = dim3(divRoundUp(width, blockDim.x), divRoundUp(height, blockDim.y), 1)
gridDim(size) == [x |-> divRoundUp(size.x, blockDim.x), y |-> divRoundUp(size.y, blockDim.y)]

Blocks(size) == (0..(gridDim(size).x - 1)) \X (0..(gridDim(size).y - 1))

\* idx = blockIdx * blockDim + threadIdx for every thread of the grid
Threads(size) ==
    (0..(gridDim(size).x * blockDim.x - 1)) \X (0..(gridDim(size).y * blockDim.y - 1))

BlockOf(idx) == <<idx[1] \div blockDim.x, idx[2] \div blockDim.y>>

\* if (idx.x >= size.x || idx.y >= size.y) return;
OutOfBounds(idx, size) == idx[1] >= size.x \/ idx[2] >= size.y

\* 2^(j/2) in quanta for j = -16..12: log2f is read off this table, rounded down
\* to a multiple of 0.5
Log2Steps ==
    <<4, 6, 8, 11, 16, 22, 31, 44, 62, 88, 125, 177, 250, 354, 500, 707, 1000, 1414,
      2000, 2828, 4000, 5657, 8000, 11314, 16000, 22627, 32000, 45255, 64000>>

log2f(x) ==
    IF isnan(x) \/ x < 0 THEN NaN
    ELSE IF x = 0 THEN NInf
    ELSE IF x = PInf THEN PInf
    ELSE (Cardinality({j \in 1..Len(Log2Steps) : Log2Steps[j] <= x}) - 17) * 500

\* (uint)rintf(c * 63 * 0.99999) for c in quanta; the conversion of NaN gives 0
rintfBucket(c) == IF isnan(c) THEN 0 ELSE (c * 62999 + 500000) \div 1000000

\* fBucket of a pixel from its luminance
fBucket(luminance) ==
    LET logLuminance == FAdd(FMul(log2f(luminance), 100), 750)
    IN  rintfBucket(clampf(logLuminance, 0, Unit))

\* atomicInc with the bound reached one increment early
atomicInc_WrapEarly(old, val) == IF old + 1 >= val THEN 0 ELSE old + 1

\* atomicInc(address, val): ((old >= val) ? 0 : (old + 1)), in one indivisible step
atomicInc(old, val) == IF old >= val THEN 0 ELSE old + 1

(***************************************************************************)
(* SpecHist: one Histogram2 launch on every image of up to MaxHistPixels   *)
(* pixels, in one or two rows, the threads running in every order.         *)
(***************************************************************************)
MaxHistPixels == 4
HistLuminances == {0, Unit, PInf, NaN}

HistSizes == {s \in [x : 1..MaxHistPixels, y : 1..2] : s.x * s.y <= MaxHistPixels}

InBounds(size) == {idx \in Threads(size) : ~OutOfBounds(idx, size)}

InitHist ==
    /\ histSize \in HistSizes
    /\ pixels \in [InBounds(histSize) -> HistLuminances]
    /\ histogram = [b \in 0..63 |-> 0]
    /\ histDone = {}
    /\ histOut = {}
    /\ SortIdle /\ ExpIdle /\ AccIdle /\ MedIdle /\ DownIdle /\ BloomIdle /\ ToneIdle /\ InitIdle /\ CopyIdle /\ SyncIdle /\ GaussIdle /\ BlendIdle /\ FlareIdle /\ TileIdle /\ ResIdle

\* one thread inside the image: load, bucket, atomicInc
Histogram2(idx) ==
    /\ idx \notin histDone
    /\ ~OutOfBounds(idx, histSize)
    /\ histogram' = [histogram EXCEPT ![fBucket(pixels[idx])] =
                         atomicInc(@, histSize.x * histSize.y)]
    /\ histDone' = histDone \cup {idx}
    /\ UNCHANGED <<histSize, pixels, histOut, notHist>>

\* the threads of one block that are outside the image: they return at the guard
Histogram2Outside(block) ==
    /\ block \notin histOut
    /\ \E idx \in Threads(histSize) : BlockOf(idx) = block /\ OutOfBounds(idx, histSize)
    /\ histOut' = histOut \cup {block}
    /\ UNCHANGED <<histSize, pixels, histogram, histDone, notHist>>

NextHist ==
    \/ \E idx \in Threads(histSize) : Histogram2(idx)
    \/ \E block \in Blocks(histSize) : Histogram2Outside(block)

SpecHist == InitHist /\ [][NextHist]_vars

(***************************************************************************)
(* The image-buffer accesses one thread issues, kernel by kernel.  An      *)
(* access is a record [buffer, x, y, size], size being the size of the     *)
(* buffer accessed.  A thread is a record [bx, by, tx, ty] of blockIdx and *)
(* threadIdx.  The loads made inside SampleBicubicCatmullRom (Bloom,       *)
(* BicubicScale) are not part of the kernels' text and are left out.       *)
(***************************************************************************)
Access(buffer, x, y, size) == [buffer |-> buffer, x |-> x, y |-> y, size |-> size]

AccessAt(buffer, idx, size) == Access(buffer, idx[1], idx[2], size)

NoAccess == [loads |-> {}, stores |-> {}]

\* idx = blockIdx * blockDim + threadIdx
Idx(t) == <<t.bx * blockDim.x + t.tx, t.by * blockDim.y + t.ty>>

\* bufferSize4 = UInt2(divRoundUp(renderWidth, 4u), divRoundUp(renderHeight, 4u))
bufferSize4(size) == [x |-> divRoundUp(size.x, 4), y |-> divRoundUp(size.y, 4)]

\* load at idx behind the guard
Histogram2Accesses(t, size) ==
    IF OutOfBounds(Idx(t), size) THEN NoAccess
    ELSE [loads |-> {AccessAt("InBuffer", Idx(t), size)}, stores |-> {}]

\* load at idx, no guard; the threads with threadIdx % 4 = 0 store at idx / 4
DownScale4Accesses(t, size) ==
    [loads |-> {AccessAt("InBuffer", Idx(t), size)},
     stores |-> IF t.tx % 4 = 0 /\ t.ty % 4 = 0
                THEN {Access("OutBuffer", Idx(t)[1] \div 4, Idx(t)[2] \div 4, bufferSize4(size))}
                ELSE {}]

\* MedianFilter: const int blockdim, ldsBlockdim, ldsAccessOffset, kernelDim
blockdim == 8
ldsBlockdim == 10
ldsAccessOffset == 1
kernelDim == 3

\* the pixel that cell c of the tile of block <<bx, by>> is loaded from
\* (x1, y1 for c = id; x2, y2 for c = id + blockdim * blockdim)
TilePixel(bx, by, c) ==
    <<bx * blockdim - ldsAccessOffset + (c % ldsBlockdim),
      by * blockdim - ldsAccessOffset + (c \div ldsBlockdim)>>

\* the first load only
TileCellsOf_NoSecondLoad(id) == {id}
\* the tile cells thread id fills: id, and id + 64 when that is below 100
TileCellsOf(id) ==
    {id} \cup (IF id + blockdim * blockdim < ldsBlockdim * ldsBlockdim
               THEN {id + blockdim * blockdim} ELSE {})

\* hit: depthValue < RayMax at the thread's pixel
MedianFilterAccesses(t, size, hit) ==
    LET id == t.tx + t.ty * blockdim
        x == t.tx + t.bx * blockdim
        y == t.ty + t.by * blockdim
    IN  [loads |-> UNION { {AccessAt("colorBuffer", TilePixel(t.bx, t.by, c), size),
                            AccessAt("normalDepthBuffer", TilePixel(t.bx, t.by, c), size)} :
                           c \in TileCellsOf(id) },
         stores |-> IF OutOfBounds(<<x, y>>, size) \/ ~hit THEN {}
                    ELSE {Access("colorBuffer", x, y, size)}]

\* BloomGuassian: blocks of 16 x 16 threads (sharedBuffer[16][16]), 12 apart
bloomBlockDim == [x |-> 16, y |-> 16]
bloomStride == 12

\* idx2 = blockIdx * 12 + threadIdx - 2: load without guard; the threads that are
\* not on the 2-wide margin of the block store at idx2, without guard
BloomGuassianAccesses(t, size) ==
    LET idx2 == <<t.bx * bloomStride + t.tx - 2, t.by * bloomStride + t.ty - 2>>
    IN  [loads |-> {AccessAt("inBuffer", idx2, size)},
         stores |-> IF t.tx < 2 \/ t.ty < 2 \/ t.tx > 13 \/ t.ty > 13 THEN {}
                    ELSE {AccessAt("outBuffer", idx2, size)}]

\* Bloom, LensFlare, ToneMapping: load and store at idx behind the guard
InPlaceAccesses(t, size) ==
    IF OutOfBounds(Idx(t), size) THEN NoAccess
    ELSE [loads |-> {AccessAt("colorBuffer", Idx(t), size)},
          stores |-> {AccessAt("colorBuffer", Idx(t), size)}]

BloomAccesses(t, size) == InPlaceAccesses(t, size)
LensFlareAccesses(t, size) == InPlaceAccesses(t, size)
ToneMappingAccesses(t, size) == InPlaceAccesses(t, size)

\* behind the guard: loads at idx + Int2(i - 1, j - 1) for i, j in 0..2, store at idx
SharpeningFilterAccesses(t, size) ==
    IF OutOfBounds(Idx(t), size) THEN NoAccess
    ELSE [loads |-> {Access("colorBuffer", Idx(t)[1] + i - 1, Idx(t)[2] + j - 1, size) :
                       i \in 0..2, j \in 0..2},
          stores |-> {AccessAt("colorBuffer", Idx(t), size)}]

\* behind the guard: store at idx
BicubicScaleAccesses(t, size) ==
    IF OutOfBounds(Idx(t), size) THEN NoAccess
    ELSE [loads |-> {}, stores |-> {AccessAt("outputResColor", Idx(t), size)}]

\* behind the guard: load at idx, surf2Dwrite at byte idx.x * 4 of row idx.y
CopyToOutputAccesses(t, size) ==
    IF OutOfBounds(Idx(t), size) THEN NoAccess
    ELSE [loads |-> {AccessAt("outputResColor", Idx(t), size)},
          stores |-> {Access("renderTarget", (Idx(t)[1] * 4) \div 4, Idx(t)[2], size)}]

\* the grid covers the buffer with rounded-up block counts
GridThreads(grid, dim) ==
    [bx : 0..(grid.x - 1), by : 0..(grid.y - 1), tx : 0..(dim.x - 1), ty : 0..(dim.y - 1)]

KernelThreads(size) == GridThreads(gridDim(size), blockDim)

BloomGuassianThreads(size) ==
    GridThreads([x |-> divRoundUp(size.x, bloomStride), y |-> divRoundUp(size.y, bloomStride)],
                bloomBlockDim)

(***************************************************************************)
(* SpecAccess: one kernel is launched on a buffer of up to MaxAccW x       *)
(* MaxAccH pixels, and one thread of the grid runs.                        *)
(***************************************************************************)
MaxAccW == 9
MaxAccH == 2

Kernels ==
    {"Histogram2", "DownScale4", "MedianFilter", "BloomGuassian", "Bloom", "LensFlare",
     "ToneMapping", "SharpeningFilter", "BicubicScale", "CopyToOutput"}

InitAccess ==
    /\ accKernel \in Kernels
    /\ accSize \in [x : 1..MaxAccW, y : 1..MaxAccH]
    /\ accThread = <<>>
    /\ accLoads = {}
    /\ accStores = {}
    /\ SortIdle /\ ExpIdle /\ HistIdle /\ MedIdle /\ DownIdle /\ BloomIdle /\ ToneIdle /\ InitIdle /\ CopyIdle /\ SyncIdle /\ GaussIdle /\ BlendIdle /\ FlareIdle /\ TileIdle /\ ResIdle

\* thread t of the kernel runs and issues the accesses acc
Ran(kernel, t, acc) ==
    /\ accKernel = kernel
    /\ accThread = <<>>
    /\ accThread' = t
    /\ accLoads' = acc.loads
    /\ accStores' = acc.stores
    /\ UNCHANGED <<accKernel, accSize, notAcc>>

Histogram2Thread ==
    \E t \in KernelThreads(accSize) : Ran("Histogram2", t, Histogram2Accesses(t, accSize))

DownScale4Thread ==
    \E t \in KernelThreads(accSize) : Ran("DownScale4", t, DownScale4Accesses(t, accSize))

MedianFilterThread ==
    \E t \in KernelThreads(accSize) : \E hit \in BOOLEAN :
        Ran("MedianFilter", t, MedianFilterAccesses(t, accSize, hit))

BloomGuassianThread ==
    \E t \in BloomGuassianThreads(accSize) :
        Ran("BloomGuassian", t, BloomGuassianAccesses(t, accSize))

BloomThread ==
    \E t \in KernelThreads(accSize) : Ran("Bloom", t, BloomAccesses(t, accSize))

LensFlareThread ==
    \E t \in KernelThreads(accSize) : Ran("LensFlare", t, LensFlareAccesses(t, accSize))

ToneMappingThread ==
    \E t \in KernelThreads(accSize) : Ran("ToneMapping", t, ToneMappingAccesses(t, accSize))

SharpeningFilterThread ==
    \E t \in KernelThreads(accSize) :
        Ran("SharpeningFilter", t, SharpeningFilterAccesses(t, accSize))

BicubicScaleThread ==
    \E t \in KernelThreads(accSize) : Ran("BicubicScale", t, BicubicScaleAccesses(t, accSize))

CopyToOutputThread ==
    \E t \in KernelThreads(accSize) : Ran("CopyToOutput", t, CopyToOutputAccesses(t, accSize))

NextAccess ==
    \/ Histogram2Thread
    \/ DownScale4Thread
    \/ MedianFilterThread
    \/ BloomGuassianThread
    \/ BloomThread
    \/ LensFlareThread
    \/ ToneMappingThread
    \/ SharpeningFilterThread
    \/ BicubicScaleThread
    \/ CopyToOutputThread

SpecAccess == InitAccess /\ [][NextAccess]_vars

(***************************************************************************)
(* MedianFilter.  A color is a triple of floats; a tile cell (struct LDS)  *)
(* is a record [color, depth, normal, mask].  A normal is kept as a code:  *)
(* 0 is what R11_G10_B11 bits of zero decode to, two different codes are   *)
(* unit vectors at right angles.  Functions that are defined outside the   *)
(* kernels' file follow their names and the pipeline's description.        *)
(***************************************************************************)
\* depth of a ray that hit nothing
RayMax == 30000

Float3(v) == <<v, v, v>>

\* a + w * (b - a), per component
lerpf(a, b, w) == FAdd(a, FMul(w, FSub(b, a)))
lerp3f(a, b, w) == [k \in 1..3 |-> lerpf(a[k], b[k], w)]

min1f(a, b) == IF FGt(a, b) THEN b ELSE a

\* luminance of a color: dot(color, Float3(0.3, 0.6, 0.1))
GetLuma(color) == FAdd(FAdd(FMul(300, color[1]), FMul(600, color[2])), FMul(100, color[3]))

\* dot(t, t) for t = normalValue - medianNormal
NormalDist2(n1, n2) == IF n1 = n2 THEN 0 ELSE 2 * Unit

\* 1000 * exp(-q / 100) for q = 0, 10, 20, ..: expf(-(dist2) / 0.1f) is read off
\* this table, dist2 rounded down to a multiple of 0.01
ExpFalloffTable ==
    <<1000, 904, 818, 740, 670, 606, 548, 496, 449, 406, 367, 332, 301, 272, 246, 223,
      201, 182, 165, 149, 135, 122, 110, 100, 90, 82, 74, 67, 60, 55, 49, 45, 40, 36,
      33, 30, 27, 24, 22, 20, 18, 16, 14, 13, 12, 11, 10, 9, 8, 7, 6, 6, 5, 4, 4, 4,
      3, 3, 3, 2, 2, 2, 2, 1, 1, 1, 1, 1, 1, 1>>

expfFalloff(dist2) ==
    IF isnan(dist2) THEN NaN
    ELSE IF dist2 = PInf THEN 0
    ELSE IF dist2 \div 10 >= Len(ExpFalloffTable) THEN 0
    ELSE ExpFalloffTable[dist2 \div 10 + 1]

\* the spacing of half floats around q quanta: 2^-10 of the power of two below q
RECURSIVE HalfSpacing(_, _, _)
HalfSpacing(q, limit, step) ==
    IF q < limit THEN step ELSE HalfSpacing(q, 2 * limit, 2 * step)

\* float to half, as the store converts: the nearest half, infinity above 65504
ToHalf(a) ==
    IF ~isfinite(a) THEN a
    ELSE LET m == IF a < 0 THEN 0 - a ELSE a
             step == HalfSpacing(m, 2048, 1)
             r == ((m + step \div 2) \div step) * step
         IN  IF m > 65504 * Unit THEN (IF a < 0 THEN NInf ELSE PInf)
             ELSE IF a < 0 THEN 0 - r ELSE r

\* the pixel a load at <<x, y>> reads when the coordinate is clamped to the buffer
ClampPixel(x, y, size) ==
    <<IF x < 0 THEN 0 ELSE IF x >= size.x THEN size.x - 1 ELSE x,
      IF y < 0 THEN 0 ELSE IF y >= size.y THEN size.y - 1 ELSE y>>

\* Load2DHalf3Ushort1(colorBuffer, Int2(x, y)): [color, mask]
Load2DHalf3Ushort1(buffer, x, y, size, mode) ==
    IF ~OutOfBounds(<<x, y>>, size) /\ x >= 0 /\ y >= 0 THEN buffer[<<x, y>>]
    ELSE IF mode = "clamp" THEN buffer[ClampPixel(x, y, size)]
    ELSE [color |-> Float3(0), mask |-> 0]

\* Load2DFloat2(normalDepthBuffer, Int2(x, y)): [normal, depth]
Load2DFloat2(buffer, x, y, size, mode) ==
    IF ~OutOfBounds(<<x, y>>, size) /\ x >= 0 /\ y >= 0 THEN buffer[<<x, y>>]
    ELSE IF mode = "clamp" THEN buffer[ClampPixel(x, y, size)]
    ELSE [normal |-> 0, depth |-> 0]

\* global load 1 and 2 of all threads of block <<bx, by>>, then __syncthreads()
LoadTile(color, normalDepth, bx, by, size, mode) ==
    [c \in 0..(ldsBlockdim * ldsBlockdim - 1) |->
        LET px == TilePixel(bx, by, c)
            colorAndMask == Load2DHalf3Ushort1(color, px[1], px[2], size, mode)
            normalAndDepth == Load2DFloat2(normalDepth, px[1], px[2], size, mode)
        IN  [color |-> colorAndMask.color, depth |-> normalAndDepth.depth,
             normal |-> normalAndDepth.normal, mask |-> colorAndMask.mask]]

\* a >= b on floats
FGe(a, b) == ~isnan(a) /\ ~isnan(b) /\ a >= b

\* LDS center of thread (tx, ty)
Center(tile, tx, ty) == tile[tx + ldsAccessOffset + (ty + ldsAccessOffset) * ldsBlockdim]

\* neighbourLumaIdx: entry j + i * kernelDim is the neighbour in tile cell
\* threadIdx.x + j + (threadIdx.y + i) * ldsBlockdim
NeighbourLumaIdx(tile, tx, ty) ==
    [k \in 0..(kernelDim * kernelDim - 1) |->
        [luma |-> GetLuma(tile[tx + (k % kernelDim)
                               + (ty + (k \div kernelDim)) * ldsBlockdim].color),
         idx |-> k]]

\* medianColorIdx = neighbourLumaIdx[4].idx after sort9
MedianColorIdx(tile, tx, ty) == sort9(NeighbourLumaIdx(tile, tx, ty))[4].idx

\* the blend factor: normal, depth and material mask difference
BlendWeight(center, median) ==
    LET wn == min1f(expfFalloff(NormalDist2(center.normal, median.normal)), Unit)
        d  == FSub(center.depth, median.depth)
        wd == min1f(expfFalloff(FMul(d, d)), Unit)
        wm == min1f(expfFalloff(IF center.mask # median.mask THEN Unit ELSE 0), Unit)
    IN  FMul(FMul(FMul(Unit, wn), wd), wm)

\* finalColor = lerp3f(medianColor, lerp3f(colorValue, medianColor, weight), 0.5f),
\* the median sample being sharedBuffer[medianColorIdx]
FinalColor(tile, tx, ty) ==
    LET center == Center(tile, tx, ty)
        median == tile[MedianColorIdx(tile, tx, ty)]
        weight == BlendWeight(center, median)
    IN  lerp3f(median.color, lerp3f(center.color, median.color, weight), 500)

\* the nan handling left out
HandleNan_NoCheck(finalColor) == finalColor

\* handles nan: if (isnan(x) || isnan(y) || isnan(z)) finalColor = 0
HandleNan(finalColor) ==
    IF isnan(finalColor[1]) \/ isnan(finalColor[2]) \/ isnan(finalColor[3])
    THEN Float3(0)
    ELSE finalColor

\* Store2DHalf3Ushort1({ finalColor, maskValue }, colorBuffer, Int2(x, y)): what the
\* store of a thread leaves in the buffer, finalColor being the color as blended
StoredValue(finalColor, maskValue) ==
    [color |-> [k \in 1..3 |-> ToHalf(HandleNan(finalColor)[k])], mask |-> maskValue]

\* the pixel of thread (tx, ty) of block b
PixelOf(b, tx, ty) == <<tx + b[1] * blockdim, ty + b[2] * blockdim>>

\* the pixels of block b inside the image, whatever their depth (no no-hit test)
StoringPixels_NoDepthTest(tile, b, size) ==
    {pix \in {PixelOf(b, t[1], t[2]) : t \in (0..(blockdim - 1)) \X (0..(blockdim - 1))} :
        ~OutOfBounds(pix, size)}

\* the pixels of block b whose threads reach the store: inside the image, with a
\* depth below RayMax
StoringPixels(tile, b, size) ==
    {pix \in {PixelOf(b, t[1], t[2]) : t \in (0..(blockdim - 1)) \X (0..(blockdim - 1))} :
        /\ ~OutOfBounds(pix, size)
        /\ ~FGe(Center(tile, pix[1] - b[1] * blockdim, pix[2] - b[2] * blockdim).depth, RayMax)}

\* finalColor of the threads of block b that reach the store, pixel by pixel
BlendBlock(old, tile, b, size) ==
    LET st == StoringPixels(tile, b, size)
    IN  [pix \in DOMAIN old |->
            IF pix \in st
            THEN FinalColor(tile, pix[1] - b[1] * blockdim, pix[2] - b[2] * blockdim)
            ELSE old[pix]]

\* colorBuffer after the threads of block b have stored their finalColor
StoreBlock(buffer, final, tile, b, size) ==
    LET st == StoringPixels(tile, b, size)
    IN  [pix \in DOMAIN buffer |->
            IF pix \in st
            THEN StoredValue(final[pix],
                             Center(tile, pix[1] - b[1] * blockdim, pix[2] - b[2] * blockdim).mask)
            ELSE buffer[pix]]

(***************************************************************************)
(* SpecMedian: one MedianFilter launch on an image of 1..MaxMedW columns   *)
(* and 1 or 9 rows (one or two blocks).  The threads of a block load the   *)
(* tile together and, after the barrier, store together; the blocks run    *)
(* in every order.  What a load outside the buffer returns is not fixed by *)
(* the kernels' file: it is the border pixel or zero.                      *)
(***************************************************************************)
MaxMedW == 3
MedHeights == {1, blockdim + 1}

\* samples an image is made of: [color, mask, normal, depth]
Samples ==
    {[color |-> Float3(Unit), mask |-> 1, normal |-> 1, depth |-> Unit],
     [color |-> <<3 * Unit, 500, 0>>, mask |-> 1, normal |-> 1, depth |-> 1100],
     [color |-> Float3(200), mask |-> 0, normal |-> 0, depth |-> RayMax],
     [color |-> <<PInf, Unit, Unit>>, mask |-> 1, normal |-> 1, depth |-> Unit],
     [color |-> <<Unit, NaN, Unit>>, mask |-> 1, normal |-> 1, depth |-> Unit]}

MedSizes == {s \in [x : 1..MaxMedW, y : MedHeights] : TRUE}

MedPixels(size) == (0..(size.x - 1)) \X (0..(size.y - 1))

\* one sample everywhere, but for at most one pixel
Images(size) ==
    {[pix \in MedPixels(size) |-> IF pix = at THEN odd ELSE base] :
        base \in Samples, odd \in Samples, at \in MedPixels(size)}

InitMedian ==
    /\ medSize \in MedSizes
    /\ boundaryMode \in {"clamp", "zero"}
    /\ \E image \in Images(medSize) :
           /\ colorInput = [pix \in MedPixels(medSize) |->
                               [color |-> image[pix].color, mask |-> image[pix].mask]]
           /\ normalDepthBuffer = [pix \in MedPixels(medSize) |->
                               [normal |-> image[pix].normal, depth |-> image[pix].depth]]
    /\ colorBuffer = colorInput
    /\ medPhase = [b \in Blocks(medSize) |-> "launched"]
    /\ sharedBuffer = [b \in Blocks(medSize) |-> <<>>]
    /\ blended = [pix \in MedPixels(medSize) |-> <<>>]
    /\ SortIdle /\ ExpIdle /\ HistIdle /\ AccIdle /\ DownIdle /\ BloomIdle /\ ToneIdle /\ InitIdle /\ CopyIdle /\ SyncIdle /\ GaussIdle /\ BlendIdle /\ FlareIdle /\ TileIdle /\ ResIdle

\* the threads of block b load the tile and reach __syncthreads()
MedianFilterLoad(b) ==
    /\ medPhase[b] = "launched"
    /\ sharedBuffer' = [sharedBuffer EXCEPT ![b] =
           LoadTile(colorBuffer, normalDepthBuffer, b[1], b[2], medSize, boundaryMode)]
    /\ medPhase' = [medPhase EXCEPT ![b] = "loaded"]
    /\ UNCHANGED <<medSize, boundaryMode, colorInput, colorBuffer, normalDepthBuffer,
                   blended, notMed>>

\* the threads of block b filter their pixels and store
MedianFilterStore(b) ==
    /\ medPhase[b] = "loaded"
    /\ blended' = BlendBlock(blended, sharedBuffer[b], b, medSize)
    /\ colorBuffer' = StoreBlock(colorBuffer, blended', sharedBuffer[b], b, medSize)
    /\ medPhase' = [medPhase EXCEPT ![b] = "stored"]
    /\ UNCHANGED <<medSize, boundaryMode, colorInput, normalDepthBuffer, sharedBuffer,
                   notMed>>

NextMedian ==
    \/ \E b \in Blocks(medSize) : MedianFilterLoad(b)
    \/ \E b \in Blocks(medSize) : MedianFilterStore(b)

SpecMedian == InitMedian /\ [][NextMedian]_vars

(***************************************************************************)
(* SpecDown: DownScale4, the 16 threads of block (0, 0) that produce the   *)
(* output pixel (0, 0), on a source of at least 4 x 4 pixels.  The kernel  *)
(* has no barrier, so a thread takes its next statement whenever it is     *)
(* scheduled.  Up to MaxFree threads are scheduled freely; the others run  *)
(* each statement together, one statement after the other.  The shared     *)
(* tile starts with whatever the block found in it.                        *)
(***************************************************************************)
MaxFree == 1

\* the subsets of S of at most k elements
RECURSIVE AtMost(_, _)
AtMost(S, k) ==
    IF k = 0 THEN {{}}
    ELSE AtMost(S, k - 1) \cup {L \cup {a} : L \in AtMost(S, k - 1), a \in S}

\* threadIdx <<x, y>> of the threads whose cells feed output pixel (0, 0)
DownGroup == (0..3) \X (0..3)

\* if (threadIdx.x % 2 == 0 && threadIdx.y % 2 == 0)
DownFirstLevel(t) == t[1] % 2 = 0 /\ t[2] % 2 = 0

\* if (threadIdx.x % 4 == 0 && threadIdx.y % 4 == 0)
DownSecondLevel(t) == t[1] % 4 = 0 /\ t[2] % 4 = 0

\* the three other cells a thread adds to its own, d = 1 and then d = 2
DownNeighbours(t, d) == {<<t[1] + d, t[2]>>, <<t[1], t[2] + d>>, <<t[1] + d, t[2] + d>>}

\* sharedBuffer[x][y] + sharedBuffer[x + d][y] + sharedBuffer[x][y + d] + sharedBuffer[x + d][y + d]
DownSum(shared, t, d) ==
    FAdd(FAdd(FAdd(shared[t], shared[<<t[1] + d, t[2]>>]),
              shared[<<t[1], t[2] + d>>]),
         shared[<<t[1] + d, t[2] + d>>])

\* the statement a thread is at after its load, and after its first sum
DownAfterLoad(t) == IF DownFirstLevel(t) THEN "reduce1" ELSE "done"
DownAfterReduce1(t) == IF DownSecondLevel(t) THEN "reduce2" ELSE "done"

\* the cells in cs whose owner has not yet made the store the reader t needs
DownEarly(t, cs, pending, level) ==
    {[reader |-> t, cell |-> c, level |-> level] : c \in {d \in cs : downPc[d] \in pending}}

\* the unweighted average of the 16 source pixels of output pixel (0, 0)
DownRowSum(img, y) == FAdd(FAdd(FAdd(img[<<0, y>>], img[<<1, y>>]), img[<<2, y>>]), img[<<3, y>>])
DownAverage(img) ==
    FDiv(FAdd(FAdd(FAdd(DownRowSum(img, 0), DownRowSum(img, 1)), DownRowSum(img, 2)),
              DownRowSum(img, 3)),
         16 * Unit)

\* source values (multiples of 16 quanta, so that / 16 is exact) and tile leftovers
DownValues == {0, 1600, 16000}
DownGarbage == {0, 2000}
DownImages ==
    {[c \in DownGroup |-> IF c = o THEN v ELSE b] :
        b \in {0, 1600}, o \in DownGroup, v \in DownValues}

InitDown ==
    /\ downImage \in DownImages
    /\ \E g \in DownGarbage : downShared = [c \in DownGroup |-> g]
    /\ downPc = [t \in DownGroup |-> "load"]
    /\ downFree \in AtMost(DownGroup, MaxFree)
    /\ downOut = <<>>
    /\ downRaces = {}
    /\ SortIdle /\ ExpIdle /\ HistIdle /\ AccIdle /\ MedIdle /\ BloomIdle /\ ToneIdle /\ InitIdle /\ CopyIdle /\ SyncIdle /\ GaussIdle /\ BlendIdle /\ FlareIdle /\ TileIdle /\ ResIdle

\* sharedBuffer[threadIdx.x][threadIdx.y] = Load2DHalf4(InBuffer, idx) / 16, by the threads P
DownScale4Load(P) ==
    /\ P # {}
    /\ \A t \in P : downPc[t] = "load"
    /\ downShared' = [c \in DownGroup |->
                        IF c \in P THEN FDiv(downImage[c], 16 * Unit) ELSE downShared[c]]
    /\ downPc' = [t \in DownGroup |-> IF t \in P THEN DownAfterLoad(t) ELSE downPc[t]]
    /\ UNCHANGED <<downImage, downFree, downOut, downRaces, notDown>>

\* the first reduction level, by the threads P
DownScale4Reduce1(P) ==
    /\ P # {}
    /\ \A t \in P : downPc[t] = "reduce1"
    /\ downShared' = [c \in DownGroup |->
                        IF c \in P THEN DownSum(downShared, c, 1) ELSE downShared[c]]
    /\ downRaces' = downRaces \cup
                    UNION {DownEarly(t, DownNeighbours(t, 1), {"load"}, 1) : t \in P}
    /\ downPc' = [t \in DownGroup |-> IF t \in P THEN DownAfterReduce1(t) ELSE downPc[t]]
    /\ UNCHANGED <<downImage, downFree, downOut, notDown>>

\* the second reduction level and Store2DHalf4(result, OutBuffer, idx / 4), by thread t
DownScale4Reduce2(t) ==
    /\ downPc[t] = "reduce2"
    /\ downOut' = <<ToHalf(DownSum(downShared, t, 2))>>
    /\ downRaces' = downRaces \cup
                    DownEarly(t, DownNeighbours(t, 2), {"load", "reduce1"}, 2)
    /\ downPc' = [downPc EXCEPT ![t] = "done"]
    /\ UNCHANGED <<downImage, downShared, downFree, notDown>>

\* the threads that run together, at a statement
DownPrompt(pc) == {t \in DownGroup \ downFree : downPc[t] = pc}

NextDown ==
    \/ \E t \in downFree : DownScale4Load({t})
    \/ \E t \in downFree : DownScale4Reduce1({t})
    \/ \E t \in downFree : DownScale4Reduce2(t)
    \/ DownScale4Load(DownPrompt("load"))
    \/ DownPrompt("load") = {} /\ DownScale4Reduce1(DownPrompt("reduce1"))
    \/ /\ DownPrompt("load") = {} /\ DownPrompt("reduce1") = {}
       /\ \E t \in DownPrompt("reduce2") : DownScale4Reduce2(t)

SpecDown == InitDown /\ [][NextDown]_vars

(***************************************************************************)
(* SpecBloom: the bloom chain on a gray frame that is dark except for one  *)
(* pixel brighter than exposure[2]: DownScale4 to 1/4 and to 1/16,         *)
(* BloomGuassian on both, and Bloom.  A buffer holds one gray level per    *)
(* pixel (the three color channels are equal).                             *)
(***************************************************************************)
MaxBloomW == 8

\* Load2DHalf4(buffer, Int2(x, y)) on a gray buffer
Load2DHalf4(buffer, x, y, size, mode) ==
    IF ~OutOfBounds(<<x, y>>, size) /\ x >= 0 /\ y >= 0 THEN buffer[<<x, y>>]
    ELSE IF mode = "clamp" THEN buffer[ClampPixel(x, y, size)]
    ELSE 0

\* the largest n in lo..hi with n * n <= v
RECURSIVE SqrtSearch(_, _, _)
SqrtSearch(v, lo, hi) ==
    IF lo >= hi THEN lo
    ELSE LET mid == (lo + hi + 1) \div 2
         IN  IF mid * mid <= v THEN SqrtSearch(v, mid, hi) ELSE SqrtSearch(v, lo, mid - 1)

\* sqrtf(a): NaN below zero
sqrtf(a) ==
    IF isnan(a) \/ a = NInf THEN NaN
    ELSE IF a = PInf THEN PInf
    ELSE IF a < 0 THEN NaN
    ELSE SqrtSearch(a * Unit, 0, 46340)

\* max(float, double) of the device library: a NaN argument yields the other one
fmax(a, b) == IF isnan(a) THEN b ELSE IF isnan(b) THEN a ELSE IF FGt(a, b) THEN a ELSE b

\* the pixels of a square buffer of side n
Square(n) == (0..(n - 1)) \X (0..(n - 1))
SizeOf(n) == [x |-> n, y |-> n]

\* the value DownScale4 stores at output pixel <<X, Y>>: every thread finishing
\* a statement before any starts the next ("phased"), or thread (0, 0) of the
\* group running all its statements before the others load ("ahead"), when the
\* cells of the others still hold what the tile held at launch
DownScale4Pixel(InBuffer, n, mode, X, Y, order, tile) ==
    LET loaded == [c \in DownGroup |->
                     FDiv(Load2DHalf4(InBuffer, 4 * X + c[1], 4 * Y + c[2], SizeOf(n), mode),
                          16 * Unit)]
        first  == IF order = "phased" THEN DownGroup ELSE {<<0, 0>>}
        shared1 == [c \in DownGroup |-> IF c \in first THEN loaded[c] ELSE tile]
        shared2 == [c \in DownGroup |->
                      IF c \in first /\ DownFirstLevel(c) THEN DownSum(shared1, c, 1)
                      ELSE shared1[c]]
    IN  ToHalf(DownSum(shared2, <<0, 0>>, 2))

DownScale4Buffer(InBuffer, n, mode, order, tile) ==
    [q \in Square(divRoundUp(n, 4)) |->
        DownScale4Pixel(InBuffer, n, mode, q[1], q[2], order, tile)]

\* cGaussian5x5, as CalculateGaussianKernel fills it for sigma 1.0
cGaussian5x5 ==
    <<4, 14, 23, 15, 4,  14, 58, 92, 58, 15,  23, 92, 147, 93, 23,
      15, 58, 93, 59, 15,  4, 15, 23, 15, 4>>

\* inColor *= max(sqrtf(lum * lum - brightLum), 0.0), on the pixel loaded at <<x, y>>
BloomThreshold(inBuffer, x, y, n, mode, brightLum) ==
    LET inColor == Load2DHalf4(inBuffer, x, y, SizeOf(n), mode)
        lum == inColor
    IN  FMul(inColor, fmax(sqrtf(FSub(FMul(lum, lum), brightLum)), 0))

\* outColor += cGaussian5x5[i] * sharedBuffer[x][y], for i from k to 24
RECURSIVE BloomConvolve(_, _, _, _, _, _, _)
BloomConvolve(inBuffer, q, n, mode, brightLum, i, outColor) ==
    IF i >= 25 THEN outColor
    ELSE BloomConvolve(inBuffer, q, n, mode, brightLum, i + 1,
             FAdd(outColor,
                  FMul(cGaussian5x5[i + 1],
                       BloomThreshold(inBuffer, q[1] + (i % 5) - 2, q[2] + (i \div 5) - 2,
                                      n, mode, brightLum))))

\* BloomGuassian: what the inner thread with idx2 = q stores at q
BloomGuassianBuffer(inBuffer, n, mode, brightLum) ==
    [q \in Square(n) |-> ToHalf(BloomConvolve(inBuffer, q, n, mode, brightLum, 0, 0))]

\* the four Catmull-Rom weights at the fraction f
CatmullRomWeights(f) ==
    <<FMul(f, FAdd(-500, FMul(f, FSub(Unit, FMul(500, f))))),
      FAdd(Unit, FMul(FMul(f, f), FAdd(-2500, FMul(1500, f)))),
      FMul(f, FAdd(500, FMul(f, FSub(2 * Unit, FMul(1500, f))))),
      FMul(FMul(f, f), FAdd(-500, FMul(500, f)))>>

FSum4(a, b, c, d) == FAdd(FAdd(FAdd(a, b), c), d)

\* SampleBicubicCatmullRom(buffer, Load2DHalf4ToFloat3, uv, texSize): 16 taps
\* around uv * texSize - 0.5, weighted separably
SampleBicubicCatmullRom(buffer, u, v, n, mode) ==
    LET px == u * n - 500
        py == v * n - 500
        tx == px \div Unit
        ty == py \div Unit
        wx == CatmullRomWeights(px % Unit)
        wy == CatmullRomWeights(py % Unit)
        row(j) == FSum4(FMul(wx[1], Load2DHalf4(buffer, tx - 1, ty - 1 + j, SizeOf(n), mode)),
                        FMul(wx[2], Load2DHalf4(buffer, tx,     ty - 1 + j, SizeOf(n), mode)),
                        FMul(wx[3], Load2DHalf4(buffer, tx + 1, ty - 1 + j, SizeOf(n), mode)),
                        FMul(wx[4], Load2DHalf4(buffer, tx + 2, ty - 1 + j, SizeOf(n), mode)))
    IN  FSum4(FMul(wy[1], row(0)), FMul(wy[2], row(1)), FMul(wy[3], row(2)), FMul(wy[4], row(3)))

\* Bloom: color + (sampledColor4 + sampledColor16) * 0.05 at every pixel
BloomBuffer(buffer, buffer4, buffer16, n, n4, n16, mode) ==
    [q \in Square(n) |->
        LET u == (q[1] * Unit) \div n
            v == (q[2] * Unit) \div n
            sampledColor4  == SampleBicubicCatmullRom(buffer4, u, v, n4, mode)
            sampledColor16 == SampleBicubicCatmullRom(buffer16, u, v, n16, mode)
        IN  ToHalf(FAdd(buffer[q], FMul(FAdd(sampledColor4, sampledColor16), 50)))]

\* frames: dark except for the pixel at spot, which has the level lum
BloomSizes == {n \in {4, 8, 16} : n <= MaxBloomW}
BloomSpots(n) == {<<0, 0>>, <<1, 2>>, <<n - 1, n - 1>>}
BrightLums == {250, Unit}
BloomLevels == {400, 2 * Unit, 64 * Unit, 512 * Unit}

bufferSize16(n) == divRoundUp(divRoundUp(n, 4), 4)

InitBloom ==
    /\ blSize \in BloomSizes
    /\ blMode \in {"clamp", "zero"}
    /\ blOrder \in {"phased", "ahead"}
    /\ blTile \in DownGarbage
    /\ blBright \in BrightLums
    /\ \E spot \in BloomSpots(blSize), lum \in BloomLevels :
          /\ lum > blBright
          /\ blFrame = [q \in Square(blSize) |-> IF q = spot THEN lum ELSE 0]
    /\ blColor4 = <<>> /\ blColor16 = <<>> /\ blBloom4 = <<>> /\ blBloom16 = <<>>
    /\ blOut = <<>>
    /\ blStage = "frame"
    /\ SortIdle /\ ExpIdle /\ HistIdle /\ AccIdle /\ MedIdle /\ DownIdle /\ ToneIdle /\ InitIdle /\ CopyIdle /\ SyncIdle /\ GaussIdle /\ BlendIdle /\ FlareIdle /\ TileIdle /\ ResIdle

\* DownScale4(colorBuffer, colorBuffer4, size)
DownScale4To4 ==
    /\ blStage = "frame"
    /\ blColor4' = DownScale4Buffer(blFrame, blSize, blMode, blOrder, blTile)
    /\ blStage' = "down4"
    /\ UNCHANGED <<blSize, blMode, blOrder, blTile, blBright, blFrame, blColor16,
                   blBloom4, blBloom16, blOut, notBloom>>

\* DownScale4(colorBuffer4, colorBuffer16, bufferSize4)
DownScale4To16 ==
    /\ blStage = "down4"
    /\ blColor16' = DownScale4Buffer(blColor4, divRoundUp(blSize, 4), blMode, blOrder, blTile)
    /\ blStage' = "down16"
    /\ UNCHANGED <<blSize, blMode, blOrder, blTile, blBright, blFrame, blColor4,
                   blBloom4, blBloom16, blOut, notBloom>>

\* BloomGuassian(bloomBuffer4, colorBuffer4, bufferSize4, exposure)
BloomGuassian4 ==
    /\ blStage = "down16"
    /\ blBloom4' = BloomGuassianBuffer(blColor4, divRoundUp(blSize, 4), blMode, blBright)
    /\ blStage' = "blur4"
    /\ UNCHANGED <<blSize, blMode, blOrder, blTile, blBright, blFrame, blColor4, blColor16,
                   blBloom16, blOut, notBloom>>

\* BloomGuassian(bloomBuffer16, colorBuffer16, bufferSize16, exposure)
BloomGuassian16 ==
    /\ blStage = "blur4"
    /\ blBloom16' = BloomGuassianBuffer(blColor16, bufferSize16(blSize), blMode, blBright)
    /\ blStage' = "blur16"
    /\ UNCHANGED <<blSize, blMode, blOrder, blTile, blBright, blFrame, blColor4, blColor16,
                   blBloom4, blOut, notBloom>>

\* Bloom(colorBuffer, bloomBuffer4, bloomBuffer16, size, bufferSize4, bufferSize16)
Bloom ==
    /\ blStage = "blur16"
    /\ blOut' = BloomBuffer(blFrame, blBloom4, blBloom16, blSize, divRoundUp(blSize, 4),
                            bufferSize16(blSize), blMode)
    /\ blStage' = "done"
    /\ UNCHANGED <<blSize, blMode, blOrder, blTile, blBright, blFrame, blColor4, blColor16,
                   blBloom4, blBloom16, notBloom>>

NextBloom == DownScale4To4 \/ DownScale4To16 \/ BloomGuassian4 \/ BloomGuassian16 \/ Bloom

SpecBloom == InitBloom /\ [][NextBloom]_vars

(***************************************************************************)
(* IEEE 754 binary32, for the stages whose result depends on the rounding  *)
(* of single operations.  A float is <<m, e>> and stands for m * 2^e, with *)
(* m = 0 or 2^23 <= |m| < 2^24; every operation rounds to nearest, ties to *)
(* even.  B32NaN stands for NaN.  The values of these stages stay far from *)
(* the ends of the exponent range, so overflow, underflow and infinities   *)
(* are left out; x / 0 is only reached as 0 / 0.                           *)
(***************************************************************************)
B32Zero == <<0, 0>>
B32NaN == <<0, 1>>

B32IsNaN(a) == a = B32NaN
B32IsZero(a) == a = B32Zero

Abs(n) == IF n < 0 THEN 0 - n ELSE n

\* the number of bits of n > 0
RECURSIVE BitLen(_)
BitLen(n) == IF n = 0 THEN 0 ELSE 1 + BitLen(n \div 2)

\* the float nearest to (n + d) * 2^e * sign, for an integer n > 0 and a
\* fraction d in [0, 1) that is not zero exactly when sticky
B32Norm(sign, n, e, sticky) ==
    LET b == BitLen(n)
    IN  IF b <= 24 THEN <<sign * n * 2^(24 - b), e - (24 - b)>>
        ELSE LET s == b - 24
                 q == n \div 2^s
                 r == n % 2^s
                 half == 2^(s - 1)
                 up == r > half \/ (r = half /\ (sticky \/ q % 2 = 1))
                 mant == IF up THEN q + 1 ELSE q
             IN  IF mant = 2^24 THEN <<sign * 2^23, e + s + 1>> ELSE <<sign * mant, e + s>>

\* the float of an integer
B32Int(n) == IF n = 0 THEN B32Zero ELSE B32Norm(Sign(n), Abs(n), 0, FALSE)

B32Neg(a) == IF B32IsNaN(a) THEN a ELSE <<0 - a[1], a[2]>>

\* a * b: the 48-bit product of the mantissas, from their 12-bit halves
B32Mul(a, b) ==
    IF B32IsNaN(a) \/ B32IsNaN(b) THEN B32NaN
    ELSE IF B32IsZero(a) \/ B32IsZero(b) THEN B32Zero
    ELSE LET ma == Abs(a[1])
             mb == Abs(b[1])
             ah == ma \div 4096
             al == ma % 4096
             bh == mb \div 4096
             bl == mb % 4096
             mid == ah * bl + al * bh
             low == (mid % 4096) * 4096 + al * bl
             high == ah * bh + mid \div 4096 + low \div 2^24
             low24 == low % 2^24
         IN  B32Norm(Sign(a[1]) * Sign(b[1]), high * 128 + low24 \div 2^17,
                     a[2] + b[2] + 17, low24 % 2^17 # 0)

\* k steps of long division: <<quotient, remainder>>
RECURSIVE B32Quot(_, _, _, _)
B32Quot(r, d, q, k) ==
    IF k = 0 THEN <<q, r>>
    ELSE IF r >= d THEN B32Quot(2 * (r - d), d, 2 * q + 1, k - 1)
    ELSE B32Quot(2 * r, d, 2 * q, k - 1)

\* a / b
B32Div(a, b) ==
    IF B32IsNaN(a) \/ B32IsNaN(b) \/ B32IsZero(b) THEN B32NaN
    ELSE IF B32IsZero(a) THEN B32Zero
    ELSE LET qr == B32Quot(Abs(a[1]), Abs(b[1]), 0, 27)
         IN  B32Norm(Sign(a[1]) * Sign(b[1]), qr[1], a[2] - b[2] - 26, qr[2] # 0)

\* a + b for |a| of the larger exponent, with 6 guard bits
B32AddOrdered(a, b) ==
    LET d == a[2] - b[2]
        big == Abs(a[1]) * 64
        small == IF d > 30 THEN 0 ELSE (Abs(b[1]) * 64) \div 2^d
        lost == IF d > 30 THEN TRUE ELSE (Abs(b[1]) * 64) % 2^d # 0
        same == Sign(a[1]) = Sign(b[1])
        n == IF same THEN big + small ELSE big - small - (IF lost THEN 1 ELSE 0)
    IN  IF n = 0 THEN B32Zero
        ELSE IF n < 0 THEN B32Norm(0 - Sign(a[1]), 0 - n, a[2] - 6, FALSE)
        ELSE B32Norm(Sign(a[1]), n, a[2] - 6, lost)

\* a + b
B32Add(a, b) ==
    IF B32IsNaN(a) \/ B32IsNaN(b) THEN B32NaN
    ELSE IF B32IsZero(a) THEN b
    ELSE IF B32IsZero(b) THEN a
    ELSE IF a[2] >= b[2] THEN B32AddOrdered(a, b) ELSE B32AddOrdered(b, a)

\* a - b
B32Sub(a, b) == B32Add(a, B32Neg(b))

\* a < b
B32Lt(a, b) ==
    /\ ~B32IsNaN(a) /\ ~B32IsNaN(b)
    /\ LET d == B32Sub(a, b) IN d[1] < 0

\* the float of the decimal literal num / den
B32Lit(num, den) == B32Div(B32Int(num), B32Int(den))

\* float to half, as Store2DHalf4 converts: 11 bits of mantissa from 2^-14
\* up, multiples of 2^-24 below
B32ToHalf(a) ==
    IF B32IsNaN(a) \/ B32IsZero(a) THEN a
    ELSE LET mant == Abs(a[1])
             s == IF a[2] + 23 >= -14 THEN 13 ELSE (0 - 24) - a[2]
         IN  IF s > 25 THEN B32Zero
             ELSE LET q == mant \div 2^s
                      r == mant % 2^s
                      half == 2^(s - 1)
                      up == r > half \/ (r = half /\ q % 2 = 1)
                      n == IF up THEN q + 1 ELSE q
                  IN  IF n = 0 THEN B32Zero ELSE B32Norm(Sign(a[1]), n, a[2] + s, FALSE)

(***************************************************************************)
(* SpecTone: ToneMapping on one pixel inside the image, in binary32.       *)
(***************************************************************************)
\* Uncharted2Tonemap(x), one channel
Uncharted2Tonemap(x) ==
    LET A == B32Lit(15, 100)
        B == B32Lit(50, 100)
        C == B32Lit(10, 100)
        D == B32Lit(20, 100)
        E == B32Lit(2, 100)
        F == B32Lit(30, 100)
    IN  B32Sub(B32Div(B32Add(B32Mul(x, B32Add(B32Mul(A, x), B32Mul(C, B))), B32Mul(D, E)),
                      B32Add(B32Mul(x, B32Add(B32Mul(A, x), B)), B32Mul(D, F))),
               B32Div(E, F))

\* powf(x, 1.0f / 2.2f): 2^(log2(x) / 2.2), with log2 and 2^ taken linear
\* between the powers of two, in steps of 1/1024; NaN below zero
powfGamma(x) ==
    IF B32IsNaN(x) \/ x[1] < 0 THEN B32NaN
    ELSE IF B32IsZero(x) THEN B32Zero
    ELSE LET log2x == (x[2] + 23) * 1024 + (x[1] - 2^23) \div 2^13
             y == (log2x * 5) \div 11
         IN  <<2^23 + (y % 1024) * 2^13, (y \div 1024) - 23>>

\* clampf on binary32
B32Clamp(a, lo, hi) == IF B32Lt(a, lo) THEN lo ELSE IF B32Lt(hi, a) THEN hi ELSE a

\* what ToneMapping stores for one channel of the pixel
ToneMappingChannel(channel, ev) ==
    LET W == B32Lit(112, 10)
        texColor == B32Mul(channel, ev)
        ExposureBias == B32Int(2)
        curr == Uncharted2Tonemap(B32Mul(ExposureBias, texColor))
        whiteScale == B32Div(B32Int(1), Uncharted2Tonemap(W))
        color == B32Mul(curr, whiteScale)
        retColor == B32Clamp(powfGamma(color), B32Zero, B32Int(1))
    IN  B32ToHalf(retColor)

\* channel values of the pixel (halves) and exposure values
ToneLevels == {B32Zero, B32Lit(1, 1024), B32Lit(1, 4), B32Int(1), B32Int(3), B32Int(100)}
ToneExposures == {B32Zero, B32Lit(1, 2), B32Int(1), B32Lit(133, 100), B32Int(8)}

InitTone ==
    /\ toneColor \in ToneLevels \X ToneLevels \X ToneLevels
    /\ toneExposure \in ToneExposures
    /\ toneStored = <<>>
    /\ SortIdle /\ ExpIdle /\ HistIdle /\ AccIdle /\ MedIdle /\ DownIdle /\ BloomIdle /\ InitIdle /\ CopyIdle /\ SyncIdle /\ GaussIdle /\ BlendIdle /\ FlareIdle /\ TileIdle /\ ResIdle

ToneMapping ==
    /\ toneStored = <<>>
    /\ toneStored' = [k \in 1..3 |-> ToneMappingChannel(toneColor[k], toneExposure)]
    /\ UNCHANGED <<toneColor, toneExposure, notTone>>

NextTone == ToneMapping

SpecTone == InitTone /\ [][NextTone]_vars

(***************************************************************************)
(* SpecInit: the checked runtime calls of RayTracer::init (init.cu, lines  *)
(* 89 to 147) and of Buffer2D::init, each of which may return any status.  *)
(***************************************************************************)
cudaSuccess == 0

\* the statuses a call returns: success, cudaErrorInvalidValue,
\* cudaErrorMemoryAllocation, cudaErrorInsufficientDriver, cudaErrorUnknown
CudaErrors == {cudaSuccess, 1, 2, 35, 999}

Call(name, line) == [call |-> name, line |-> line]

\* GpuErrorCheck(...) of RayTracer::init, in program order
RayTracerInitCalls ==
    <<Call("cudaMallocArray", 89), Call("cudaMallocArray", 90), Call("cudaMallocArray", 91),
      Call("cudaMallocArray", 95), Call("cudaMallocArray", 96), Call("cudaMallocArray", 100),
      Call("cudaMallocArray", 101), Call("cudaMallocArray", 105), Call("cudaMallocArray", 107),
      Call("cudaMallocArray", 108),
      Call("cudaCreateSurfaceObject", 114), Call("cudaCreateSurfaceObject", 116),
      Call("cudaCreateSurfaceObject", 118), Call("cudaCreateSurfaceObject", 121),
      Call("cudaCreateSurfaceObject", 123), Call("cudaCreateSurfaceObject", 125),
      Call("cudaCreateSurfaceObject", 128), Call("cudaCreateSurfaceObject", 130),
      Call("cudaCreateSurfaceObject", 133), Call("cudaCreateSurfaceObject", 135),
      Call("cudaMalloc", 140), Call("cudaMemset", 141), Call("cudaMalloc", 143),
      Call("cudaMalloc", 144), Call("cudaMemcpy", 147)>>

\* GpuErrorCheck(...) of Buffer2D::init
Buffer2DInitCalls == <<Call("cudaMallocArray", 331), Call("cudaCreateSurfaceObject", 336)>>

InitCalls(function) ==
    IF function = "RayTracer::init" THEN RayTracerInitCalls ELSE Buffer2DInitCalls

\* GpuAssert with abort = false: the message only
GpuAssert_NoAbort(code) == <<>>
\* GpuAssert(code, file, line): <<status>> when it calls exit(code), <<>> when it returns
GpuAssert(code) == IF code # cudaSuccess THEN <<code>> ELSE <<>>

InitInit ==
    /\ initFunction \in {"RayTracer::init", "Buffer2D::init"}
    /\ initPc = 1
    /\ initLog = <<>>
    /\ initExit = <<>>
    /\ SortIdle /\ ExpIdle /\ HistIdle /\ AccIdle /\ MedIdle /\ DownIdle /\ BloomIdle /\ ToneIdle /\ CopyIdle /\ SyncIdle /\ GaussIdle /\ BlendIdle /\ FlareIdle /\ TileIdle /\ ResIdle

\* the next GpuErrorCheck(call) of the function: the call returns code
GpuErrorCheck(code) ==
    /\ initExit = <<>>
    /\ initPc <= Len(InitCalls(initFunction))
    /\ initLog' = Append(initLog, [call |-> InitCalls(initFunction)[initPc].call,
                                   line |-> InitCalls(initFunction)[initPc].line,
                                   code |-> code])
    /\ initExit' = GpuAssert(code)
    /\ initPc' = initPc + 1
    /\ UNCHANGED <<initFunction, notInit>>

NextInit == \E code \in CudaErrors : GpuErrorCheck(code)

SpecInit == InitInit /\ [][NextInit]_vars

(***************************************************************************)
(* SpecCopy: CopyToOutput, one thread on one pixel, in binary32.           *)
(***************************************************************************)
MaxCopyW == 1

\* float to unsigned char, as make_uchar4 converts its arguments: the
\* fraction is dropped
FloatToUchar(a) ==
    IF a[1] <= 0 THEN 0
    ELSE IF a[2] >= 0 THEN a[1] * 2^a[2]
    ELSE IF 0 - a[2] > 30 THEN 0
    ELSE a[1] \div 2^(0 - a[2])

\* sampledColor * 255 only, without the + 0.5f
Quantize_NoHalf(channel) ==
    FloatToUchar(B32Mul(B32Clamp(channel, B32Zero, B32Int(1)), B32Int(255)))
\* clamp3f(sampledColor, 0, 1), then sampledColor * 255 + 0.5f to unsigned char
Quantize(channel) ==
    FloatToUchar(B32Add(B32Mul(B32Clamp(channel, B32Zero, B32Int(1)), B32Int(255)),
                        B32Lit(1, 2)))

\* channel values: the halves j / 2048 of [0, 1], and values outside [0, 1]
CopySteps == 2048
CopyOutside == <<B32Neg(B32Int(1)), B32Lit(3, 2), B32Int(65504), B32Lit(1, 16384),
                 B32Lit(1021, 1024)>>
CopyColors ==
    {<<B32Lit(j, CopySteps), B32Lit((j * 7) % (CopySteps + 1), CopySteps),
       CopyOutside[(j % 5) + 1]>> : j \in 0..CopySteps}

CopySizes == {[x |-> w, y |-> h] : w \in 1..MaxCopyW, h \in 1..MaxCopyW}

InitCopy ==
    /\ copySize \in CopySizes
    /\ copyThread \in {t \in KernelThreads(copySize) : t.tx <= MaxCopyW /\ t.ty <= MaxCopyW}
    /\ copyColor \in CopyColors
    /\ copyDone = FALSE
    /\ copyWritten = <<>>
    /\ SortIdle /\ ExpIdle /\ HistIdle /\ AccIdle /\ MedIdle /\ DownIdle /\ BloomIdle
    /\ ToneIdle /\ InitIdle /\ SyncIdle /\ GaussIdle /\ BlendIdle /\ FlareIdle /\ TileIdle /\ ResIdle

\* if (idx.x >= outSize.x || idx.y >= outSize.y) return;
CopyToOutputOutside ==
    /\ ~copyDone
    /\ OutOfBounds(Idx(copyThread), copySize)
    /\ copyDone' = TRUE
    /\ UNCHANGED <<copySize, copyThread, copyColor, copyWritten, notCopy>>

\* surf2Dwrite(make_uchar4(...), renderTarget[0], idx.x * 4, idx.y): the byte
\* offset idx.x * 4 is pixel idx.x of a row of uchar4
CopyToOutput ==
    /\ ~copyDone
    /\ ~OutOfBounds(Idx(copyThread), copySize)
    /\ copyWritten' = <<[x |-> (Idx(copyThread)[1] * 4) \div 4,
                         y |-> Idx(copyThread)[2],
                         bytes |-> [k \in 1..3 |-> Quantize(copyColor[k])]]>>
    /\ copyDone' = TRUE
    /\ UNCHANGED <<copySize, copyThread, copyColor, notCopy>>

NextCopy == CopyToOutputOutside \/ CopyToOutput

SpecCopy == InitCopy /\ [][NextCopy]_vars

(***************************************************************************)
(* SpecSync: the 64 threads of block (0, 0) of MedianFilter, from their    *)
(* loads into the tile to their reads of it.  Up to MaxFree threads are    *)
(* scheduled freely; the others run each statement together.               *)
(* __syncthreads() lets the block through once every thread has arrived.   *)
(***************************************************************************)
SyncIds == 0..(blockdim * blockdim - 1)
SyncCells == 0..(ldsBlockdim * ldsBlockdim - 1)

\* x, y of thread id in block (0, 0)
SyncPixel(id) == <<id % blockdim, id \div blockdim>>

\* the tile cells a thread inside the image reads: its center, its 3 x 3
\* neighbours, and sharedBuffer[medianColorIdx]
SyncReadCells(id) ==
    LET tx == id % blockdim
        ty == id \div blockdim
    IN  {tx + ldsAccessOffset + (ty + ldsAccessOffset) * ldsBlockdim}
        \cup {tx + j + (ty + i) * ldsBlockdim : i \in 0..(kernelDim - 1), j \in 0..(kernelDim - 1)}
        \cup (0..(kernelDim * kernelDim - 1))

SyncSizes == {[x |-> 1, y |-> 1], [x |-> 5, y |-> 8]}

InitSync ==
    /\ syncSize \in SyncSizes
    /\ syncFree \in AtMost(SyncIds, MaxFree)
    /\ syncPc = [id \in SyncIds |-> "load1"]
    /\ syncWriters = [c \in SyncCells |-> {}]
    /\ syncReleased = FALSE
    /\ syncEarly = {}
    /\ SortIdle /\ ExpIdle /\ HistIdle /\ AccIdle /\ MedIdle /\ DownIdle /\ BloomIdle
    /\ ToneIdle /\ InitIdle /\ CopyIdle /\ GaussIdle /\ BlendIdle /\ FlareIdle /\ TileIdle /\ ResIdle

\* sharedBuffer[id] = { ... }, by the threads P
MedianLoad1(P) ==
    /\ P # {}
    /\ \A id \in P : syncPc[id] = "load1"
    /\ syncWriters' = [c \in SyncCells |->
                         syncWriters[c] \cup {<<id, 1>> : id \in {i \in P : i = c}}]
    /\ syncPc' = [id \in SyncIds |->
                    IF id \in P
                    THEN (IF TileCellsOf(id) # {id} THEN "load2" ELSE "barrier")
                    ELSE syncPc[id]]
    /\ UNCHANGED <<syncSize, syncFree, syncReleased, syncEarly, notSync>>

\* sharedBuffer[id + blockdim * blockdim] = { ... }, by the threads P
MedianLoad2(P) ==
    /\ P # {}
    /\ \A id \in P : syncPc[id] = "load2"
    /\ syncWriters' = [c \in SyncCells |->
                         syncWriters[c] \cup
                         {<<id, 2>> : id \in {i \in P : c \in TileCellsOf(i) \ {i}}}]
    /\ syncPc' = [id \in SyncIds |-> IF id \in P THEN "barrier" ELSE syncPc[id]]
    /\ UNCHANGED <<syncSize, syncFree, syncReleased, syncEarly, notSync>>

\* __syncthreads(): every thread of the block has arrived
MedianSyncThreads ==
    /\ \A id \in SyncIds : syncPc[id] = "barrier"
    /\ syncPc' = [id \in SyncIds |-> "guard"]
    /\ syncReleased' = TRUE
    /\ UNCHANGED <<syncSize, syncFree, syncWriters, syncEarly, notSync>>

\* if (x >= size.x || y >= size.y) return;  by the threads P
MedianGuard(P) ==
    /\ P # {}
    /\ \A id \in P : syncPc[id] = "guard"
    /\ syncPc' = [id \in SyncIds |->
                    IF id \in P
                    THEN (IF OutOfBounds(SyncPixel(id), syncSize) THEN "done" ELSE "read")
                    ELSE syncPc[id]]
    /\ UNCHANGED <<syncSize, syncFree, syncWriters, syncReleased, syncEarly, notSync>>

\* the reads of the tile, by the threads P
MedianRead(P) ==
    /\ P # {}
    /\ \A id \in P : syncPc[id] = "read"
    /\ syncEarly' = syncEarly \cup
                    {id \in P : \/ ~syncReleased
                                \/ \E c \in SyncReadCells(id) : syncWriters[c] = {}}
    /\ syncPc' = [id \in SyncIds |-> IF id \in P THEN "done" ELSE syncPc[id]]
    /\ UNCHANGED <<syncSize, syncFree, syncWriters, syncReleased, notSync>>

\* the threads that run together, at a statement
SyncPrompt(pc) == {id \in SyncIds \ syncFree : syncPc[id] = pc}

NextSync ==
    \/ \E id \in syncFree : MedianLoad1({id})
    \/ \E id \in syncFree : MedianLoad2({id})
    \/ \E id \in syncFree : MedianGuard({id})
    \/ \E id \in syncFree : MedianRead({id})
    \/ MedianLoad1(SyncPrompt("load1"))
    \/ MedianLoad2(SyncPrompt("load2"))
    \/ MedianSyncThreads
    \/ MedianGuard(SyncPrompt("guard"))
    \/ MedianRead(SyncPrompt("read"))

SpecSync == InitSync /\ [][NextSync]_vars

(***************************************************************************)
(* SpecGauss: the 256 threads of one block of BloomGuassian, from the      *)
(* store of their thresholded color into the tile to the convolution.      *)
(* Up to MaxFree threads are scheduled freely; the others run each         *)
(* statement together.  The border threads return before __syncthreads(),  *)
(* which the CUDA programming guide allows in conditional code only if     *)
(* the condition is the same across the block: a barrier the returned      *)
(* threads never execute either treats them as arrived or waits for them.  *)
(***************************************************************************)
GaussBlockdim == 16
GaussIds == (0..(GaussBlockdim - 1)) \X (0..(GaussBlockdim - 1))

\* threadIdx.x < 2 || threadIdx.y < 2 || threadIdx.x > 13 || threadIdx.y > 13
GaussBorder(t) == t[1] < 2 \/ t[2] < 2 \/ t[1] > 13 \/ t[2] > 13
GaussInterior == {t \in GaussIds : ~GaussBorder(t)}

\* sharedBuffer[x][y] for i in 0..24
GaussReadCells(t) ==
    {<<t[1] + (i % 5) - 2, t[2] + (i \div 5) - 2>> : i \in 0..24}

GaussBarriers == {"exit_arrives", "all_arrive"}

\* the threads that may be scheduled freely: one of each position with
\* respect to the border test, in each axis
GaussSchedulable == {0, 2, 13, 15} \X {0, 2, 13, 15}

InitGauss ==
    /\ gaussBarrier \in GaussBarriers
    /\ gaussFree \in AtMost(GaussSchedulable, MaxFree)
    /\ gaussPc = [t \in GaussIds |-> "store"]
    /\ gaussStored = {}
    /\ gaussReleased = FALSE
    /\ gaussEarly = {}
    /\ SortIdle /\ ExpIdle /\ HistIdle /\ AccIdle /\ MedIdle /\ DownIdle /\ BloomIdle
    /\ ToneIdle /\ InitIdle /\ CopyIdle /\ SyncIdle /\ BlendIdle /\ FlareIdle /\ TileIdle /\ ResIdle

\* sharedBuffer[threadIdx.x][threadIdx.y] = inColor;  by the threads P
GaussStore(P) ==
    /\ P # {}
    /\ \A t \in P : gaussPc[t] = "store"
    /\ gaussStored' = gaussStored \cup P
    /\ gaussPc' = [t \in GaussIds |-> IF t \in P THEN "guard" ELSE gaussPc[t]]
    /\ UNCHANGED <<gaussBarrier, gaussFree, gaussReleased, gaussEarly, notGauss>>

\* if (border) { return; }  by the threads P
GaussGuard(P) ==
    /\ P # {}
    /\ \A t \in P : gaussPc[t] = "guard"
    /\ gaussPc' = [t \in GaussIds |->
                     IF t \in P
                     THEN (IF GaussBorder(t) THEN "returned" ELSE "barrier")
                     ELSE gaussPc[t]]
    /\ UNCHANGED <<gaussBarrier, gaussFree, gaussStored, gaussReleased, gaussEarly, notGauss>>

\* the threads the barrier counts as arrived
GaussArrived ==
    {t \in GaussIds : \/ gaussPc[t] = "barrier"
                      \/ gaussBarrier = "exit_arrives" /\ gaussPc[t] = "returned"}

\* __syncthreads(), executed by the interior threads only
GaussSyncThreads ==
    /\ \E t \in GaussIds : gaussPc[t] = "barrier"
    /\ GaussIds = GaussArrived
    /\ gaussPc' = [t \in GaussIds |-> IF gaussPc[t] = "barrier" THEN "conv" ELSE gaussPc[t]]
    /\ gaussReleased' = TRUE
    /\ UNCHANGED <<gaussBarrier, gaussFree, gaussStored, gaussEarly, notGauss>>

\* the 25 reads of the convolution and the store of its result, by the threads P
GaussConvolve(P) ==
    /\ P # {}
    /\ \A t \in P : gaussPc[t] = "conv"
    /\ gaussEarly' = gaussEarly \cup
                     {r \in P \X (GaussIds \ gaussStored) : r[2] \in GaussReadCells(r[1])}
    /\ gaussPc' = [t \in GaussIds |-> IF t \in P THEN "done" ELSE gaussPc[t]]
    /\ UNCHANGED <<gaussBarrier, gaussFree, gaussStored, gaussReleased, notGauss>>

\* the threads that run together, at a statement
GaussPrompt(pc) == {t \in GaussIds \ gaussFree : gaussPc[t] = pc}

NextGauss ==
    \/ \E t \in gaussFree : GaussStore({t})
    \/ \E t \in gaussFree : GaussGuard({t})
    \/ \E t \in gaussFree : GaussConvolve({t})
    \/ GaussStore(GaussPrompt("store"))
    \/ GaussGuard(GaussPrompt("guard"))
    \/ GaussSyncThreads
    \/ GaussConvolve(GaussPrompt("conv"))

SpecGauss == InitGauss /\ [][NextGauss]_vars

\* every thread that can run eventually does
SpecGaussFair == SpecGauss /\ WF_vars(NextGauss)

(***************************************************************************)
(* SpecBlend: the final blend of MedianFilter on one thread, for every     *)
(* color of BlendColors as the pixel's own and as the median, and every    *)
(* weight of BlendWeights.                                                 *)
(***************************************************************************)
\* the blend with an outer factor of 1.5 in place of 0.5
FinalBlend_Overshoot(colorValue, medianColor, weight) ==
    lerp3f(medianColor, lerp3f(colorValue, medianColor, weight), 1500)

\* finalColor = lerp3f(medianColor, lerp3f(colorValue, medianColor, weight), 0.5f)
FinalBlend(colorValue, medianColor, weight) ==
    lerp3f(medianColor, lerp3f(colorValue, medianColor, weight), 500)

\* colors whose channels are multiples of 0.016: every product of the blend is exact
BlendColors ==
    {Float3(0), Float3(160), Float3(Unit + 600), <<160, 1600, 16000>>,
     <<16000, 0, 160>>, <<1600, 1600, 0>>}

\* weight is a product of three factors min1f(expf(..), 1.0f): 0 to 1
BlendWeights == {0, 125, 500, 750, Unit}

InitBlend ==
    /\ blendOrig \in BlendColors
    /\ blendMedian \in BlendColors
    /\ blendWeight \in BlendWeights
    /\ blendFinal = <<>>
    /\ SortIdle /\ ExpIdle /\ HistIdle /\ AccIdle /\ MedIdle /\ DownIdle /\ BloomIdle
    /\ ToneIdle /\ InitIdle /\ CopyIdle /\ SyncIdle /\ GaussIdle /\ FlareIdle /\ TileIdle /\ ResIdle

\* the final blend of the thread
MedianBlend ==
    /\ blendFinal = <<>>
    /\ blendFinal' = FinalBlend(blendOrig, blendMedian, blendWeight)
    /\ UNCHANGED <<blendOrig, blendMedian, blendWeight, notBlend>>

NextBlend == MedianBlend

SpecBlend == InitBlend /\ [][NextBlend]_vars

(***************************************************************************)
(* SpecFlare: LensFlarePred, run by one thread, and the LensFlare launch   *)
(* it makes, on a buffer of FlareW x FlareW pixels with the sun's pixel    *)
(* inside or just outside the buffer.  The depths are finite or +Inf.      *)
(***************************************************************************)
FlareW == 2

\* Load2DHalf1(depthBuffer, sunUv)
Load2DHalf1(buffer, x, y, size, mode) ==
    IF ~OutOfBounds(<<x, y>>, size) /\ x >= 0 /\ y >= 0 THEN buffer[<<x, y>>]
    ELSE IF mode = "clamp" THEN buffer[ClampPixel(x, y, size)]
    ELSE 0

\* the test that is never true: the launch is always made
LensFlareOccluded_Never(depthValue) == FALSE

\* if (depthValue < RayMax) { return; }
LensFlareOccluded(depthValue) == FLt(depthValue, RayMax)

\* what LensFlare adds to the pixel idx: of its terms the glow
\* 0.1f / powf(len * 10.0f, 1.0f / 20.0f) is the largest, about 0.1, and
\* infinite at the sun's own position (len = 0); the others are left out
FlareGlow(idx, sun) == IF idx = sun THEN PInf ELSE 100

\* LensFlare, all threads: color += ...; Store2DHalf4(Float4(color, 1.0), colorBuffer, idx)
LensFlareBuffer(buffer, sun, size) ==
    [idx \in DOMAIN buffer |->
        ToHalf(FAdd(Load2DHalf4(buffer, idx[1], idx[2], size, "zero"), FlareGlow(idx, sun)))]

FlarePixels == (0..(FlareW - 1)) \X (0..(FlareW - 1))
FlareDepths == {Unit, RayMax - 8, RayMax, PInf}
\* one depth everywhere, but for at most one pixel
FlareDepthBuffers ==
    {[idx \in FlarePixels |-> IF idx = at THEN odd ELSE base] :
        base \in FlareDepths, odd \in FlareDepths, at \in FlarePixels}
FlareSuns == (-1..FlareW) \X (0..(FlareW - 1))
FlareLevels == {0, 500}

InitFlare ==
    /\ flareSize = [x |-> FlareW, y |-> FlareW]
    /\ flareMode \in {"clamp", "zero"}
    /\ flareSunUv \in FlareSuns
    /\ flareDepth \in FlareDepthBuffers
    /\ flareInput \in {[idx \in FlarePixels |-> level] : level \in FlareLevels}
    /\ flareColor = flareInput
    /\ flarePc = "pred"
    /\ SortIdle /\ ExpIdle /\ HistIdle /\ AccIdle /\ MedIdle /\ DownIdle /\ BloomIdle
    /\ ToneIdle /\ InitIdle /\ CopyIdle /\ SyncIdle /\ GaussIdle /\ BlendIdle /\ TileIdle /\ ResIdle

\* LensFlarePred: the depth test at sunUv, then the launch of LensFlare
LensFlarePred ==
    /\ flarePc = "pred"
    /\ LET depthValue == Load2DHalf1(flareDepth, flareSunUv[1], flareSunUv[2],
                                     flareSize, flareMode)
       IN  flarePc' = IF LensFlareOccluded(depthValue) THEN "skipped" ELSE "launched"
    /\ UNCHANGED <<flareSize, flareMode, flareSunUv, flareDepth, flareInput, flareColor,
                   notFlare>>

\* LensFlare <<<gridDim, blockDim>>> (sunPos, colorBufferA, bufferDim)
LensFlare ==
    /\ flarePc = "launched"
    /\ flareColor' = LensFlareBuffer(flareColor, flareSunUv, flareSize)
    /\ flarePc' = "done"
    /\ UNCHANGED <<flareSize, flareMode, flareSunUv, flareDepth, flareInput, notFlare>>

NextFlare ==
    \/ LensFlarePred
    \/ LensFlare

SpecFlare == InitFlare /\ [][NextFlare]_vars

(***************************************************************************)
(* SpecTile: a whole launch of BloomGuassian on a buffer of up to          *)
(* MaxTileW x MaxTileH pixels, block by block in every order, with the     *)
(* output coordinates its threads store to and the tile indices they read. *)
(***************************************************************************)
MaxTileW == 25
MaxTileH == 13

\* idx2 of thread t of block b, with a block stride of 10
GaussIdx2_Stride10(b, t) == <<b[1] * 10 + t[1] - 2, b[2] * 10 + t[2] - 2>>

\* idx2.x = blockIdx.x * 12 + threadIdx.x - 2, idx2.y likewise
GaussIdx2(b, t) == <<b[1] * bloomStride + t[1] - 2, b[2] * bloomStride + t[2] - 2>>

\* the blocks of the launch
TileBlocks(size) ==
    (0..(divRoundUp(size.x, bloomStride) - 1)) \X (0..(divRoundUp(size.y, bloomStride) - 1))

\* the output coordinates the launch can reach
TileCoords(size) ==
    (-2..(divRoundUp(size.x, bloomStride) * bloomStride + 1))
        \X (-2..(divRoundUp(size.y, bloomStride) * bloomStride + 1))

TileSizes == {s \in [x : 1..MaxTileW, y : {1, MaxTileH}] : TRUE}

InitTile ==
    /\ tileSize \in TileSizes
    /\ tileRan = {}
    /\ tileStores = [c \in TileCoords(tileSize) |-> {}]
    /\ tileReads = {}
    /\ SortIdle /\ ExpIdle /\ HistIdle /\ AccIdle /\ MedIdle /\ DownIdle /\ BloomIdle
    /\ ToneIdle /\ InitIdle /\ CopyIdle /\ SyncIdle /\ GaussIdle /\ BlendIdle /\ FlareIdle /\ ResIdle

\* the threads of block b run to their end: the interior threads read their
\* 25 cells and store at idx2
BloomGuassianBlock(b) ==
    /\ b \notin tileRan
    /\ tileRan' = tileRan \cup {b}
    /\ tileStores' = [c \in DOMAIN tileStores |->
                        tileStores[c] \cup
                        {[block |-> b, thread |-> t] :
                            t \in {u \in GaussInterior : GaussIdx2(b, u) = c}}]
    /\ tileReads' = tileReads \cup UNION {GaussReadCells(t) : t \in GaussInterior}
    /\ UNCHANGED <<tileSize, notTile>>

NextTile == \E b \in TileBlocks(tileSize) : BloomGuassianBlock(b)

SpecTile == InitTile /\ [][NextTile]_vars

(***************************************************************************)
(* SpecRes: the device arrays, surface objects and device allocations of   *)
(* RayTracer::init and their release by RayTracer::cleanup.  A creating    *)
(* call may return any status; the releases are taken to succeed.          *)
(***************************************************************************)
ResCall(name, res, line) == [call |-> name, res |-> res, line |-> line]

\* the calls of RayTracer::init that create a device resource
ResInitCalls ==
    <<ResCall("cudaMallocArray", "colorBufferArrayA", 89),
      ResCall("cudaMallocArray", "colorBufferArrayB", 90),
      ResCall("cudaMallocArray", "colorBufferArrayC", 91),
      ResCall("cudaMallocArray", "colorBufferArray4", 95),
      ResCall("cudaMallocArray", "bloomBufferArray4", 96),
      ResCall("cudaMallocArray", "colorBufferArray16", 100),
      ResCall("cudaMallocArray", "bloomBufferArray16", 101),
      ResCall("cudaMallocArray", "colorBufferArray64", 105),
      ResCall("cudaMallocArray", "normalBufferArray", 107),
      ResCall("cudaMallocArray", "positionBufferArray", 108),
      ResCall("cudaCreateSurfaceObject", "colorBufferA", 114),
      ResCall("cudaCreateSurfaceObject", "colorBufferB", 116),
      ResCall("cudaCreateSurfaceObject", "colorBufferC", 118),
      ResCall("cudaCreateSurfaceObject", "colorBuffer4", 121),
      ResCall("cudaCreateSurfaceObject", "colorBuffer16", 123),
      ResCall("cudaCreateSurfaceObject", "colorBuffer64", 125),
      ResCall("cudaCreateSurfaceObject", "bloomBuffer4", 128),
      ResCall("cudaCreateSurfaceObject", "bloomBuffer16", 130),
      ResCall("cudaCreateSurfaceObject", "normalBuffer", 133),
      ResCall("cudaCreateSurfaceObject", "positionBuffer", 135),
      ResCall("cudaMalloc", "gHitMask", 140),
      ResCall("cudaMalloc", "d_exposure", 143),
      ResCall("cudaMalloc", "d_histogram", 144),
      ResCall("cudaMalloc", "d_spheres", 150),
      ResCall("cudaMalloc", "d_aabbs", 151),
      ResCall("cudaMalloc", "d_materialsIdx", 152),
      ResCall("cudaMalloc", "d_surfaceMaterials", 153),
      ResCall("cudaMalloc", "d_sphereLights", 154),
      ResCall("cudaMalloc", "rayState", 155),
      ResCall("cudaMalloc", "d_randInitVec", 182)>>

\* the calls of RayTracer::cleanup that release one
ResCleanupCalls ==
    <<ResCall("cudaDestroySurfaceObject", "colorBufferA", 244),
      ResCall("cudaDestroySurfaceObject", "colorBufferB", 245),
      ResCall("cudaDestroySurfaceObject", "colorBufferC", 246),
      ResCall("cudaDestroySurfaceObject", "colorBuffer4", 248),
      ResCall("cudaDestroySurfaceObject", "colorBuffer16", 249),
      ResCall("cudaDestroySurfaceObject", "colorBuffer64", 250),
      ResCall("cudaDestroySurfaceObject", "normalBuffer", 252),
      ResCall("cudaDestroySurfaceObject", "positionBuffer", 253),
      ResCall("cudaFreeArray", "colorBufferArrayA", 256),
      ResCall("cudaFreeArray", "colorBufferArrayB", 257),
      ResCall("cudaFreeArray", "colorBufferArrayC", 258),
      ResCall("cudaFreeArray", "colorBufferArray4", 260),
      ResCall("cudaFreeArray", "colorBufferArray16", 261),
      ResCall("cudaFreeArray", "colorBufferArray64", 262),
      ResCall("cudaFreeArray", "normalBufferArray", 264),
      ResCall("cudaFreeArray", "positionBufferArray", 265),
      ResCall("cudaFree", "d_exposure", 269),
      ResCall("cudaFree", "d_histogram", 270),
      ResCall("cudaFree", "gHitMask", 272),
      ResCall("cudaFree", "d_spheres", 274),
      ResCall("cudaFree", "d_surfaceMaterials", 275),
      ResCall("cudaFree", "d_aabbs", 276),
      ResCall("cudaFree", "d_materialsIdx", 277),
      ResCall("cudaFree", "d_sphereLights", 278),
      ResCall("cudaFree", "d_randInitVec", 280),
      ResCall("cudaFree", "rayState", 282)>>

InitRes ==
    /\ resPhase = "init"
    /\ resPc = 1
    /\ resLive = {}
    /\ resReleased = <<>>
    /\ resExit = <<>>
    /\ SortIdle /\ ExpIdle /\ HistIdle /\ AccIdle /\ MedIdle /\ DownIdle /\ BloomIdle
    /\ ToneIdle /\ InitIdle /\ CopyIdle /\ SyncIdle /\ GaussIdle /\ BlendIdle /\ FlareIdle
    /\ TileIdle

\* GpuErrorCheck(cudaMallocArray(..)), GpuErrorCheck(cudaCreateSurfaceObject(..)),
\* GpuErrorCheck(cudaMalloc(..)): the call returns code
ResCreate(code) ==
    /\ resPhase = "init"
    /\ resExit = <<>>
    /\ resPc <= Len(ResInitCalls)
    /\ resLive' = IF code = cudaSuccess THEN resLive \cup {ResInitCalls[resPc].res}
                  ELSE resLive
    /\ resExit' = GpuAssert(code)
    /\ resPc' = resPc + 1
    /\ UNCHANGED <<resPhase, resReleased, notRes>>

\* RayTracer::init returns; RayTracer::cleanup is called
ResInitReturn ==
    /\ resPhase = "init"
    /\ resExit = <<>>
    /\ resPc > Len(ResInitCalls)
    /\ resPhase' = "cleanup"
    /\ resPc' = 1
    /\ UNCHANGED <<resLive, resReleased, resExit, notRes>>

\* cudaDestroySurfaceObject(..), cudaFreeArray(..), cudaFree(..)
ResRelease ==
    /\ resPhase = "cleanup"
    /\ resPc <= Len(ResCleanupCalls)
    /\ resReleased' = Append(resReleased,
                             [call |-> ResCleanupCalls[resPc].call,
                              res |-> ResCleanupCalls[resPc].res,
                              line |-> ResCleanupCalls[resPc].line,
                              live |-> ResCleanupCalls[resPc].res \in resLive])
    /\ resLive' = resLive \ {ResCleanupCalls[resPc].res}
    /\ resPc' = resPc + 1
    /\ UNCHANGED <<resPhase, resExit, notRes>>

\* RayTracer::cleanup returns
ResCleanupReturn ==
    /\ resPhase = "cleanup"
    /\ resPc > Len(ResCleanupCalls)
    /\ resPhase' = "end"
    /\ UNCHANGED <<resPc, resLive, resReleased, resExit, notRes>>

NextRes ==
    \/ \E code \in CudaErrors : ResCreate(code)
    \/ ResInitReturn
    \/ ResRelease
    \/ ResCleanupReturn

SpecRes == InitRes /\ [][NextRes]_vars

(***************************************************************************)
(* Claims about sort9 (SpecSort).                                          *)
(***************************************************************************)
\* number of entries of the input below, and not above, a luminance
CountBelow(v) == Cardinality({k \in 0..8 : lumas[k] < v})
CountAtMost(v) == Cardinality({k \in 0..8 : lumas[k] <= v})

\* the input is 8 equal luminances and one other, at position o
OutlierAt(o) ==
    /\ \A k \in 0..8 : k # o => lumas[k] = lumas[(o + 1) % 9]
    /\ lumas[o] # lumas[(o + 1) % 9]

(* C8: after sort9, p[4] carries the 5th-smallest luminance of the input   *)
(* (ties included), p[4].idx is an original position 0..8 whose luminance  *)
(* is that value, and with one outlier among 8 equal values the selected   *)
(* index is never the outlier's.                                           *)
C8_MedianSelected ==
    sortpc = "sorted" =>
        /\ CountBelow(p[4].luma) <= 4
        /\ CountAtMost(p[4].luma) >= 5
        /\ p[4].idx \in 0..8
        /\ lumas[p[4].idx] = p[4].luma
        /\ \A o \in 0..8 : OutlierAt(o) => p[4].idx # o

\* sort9 has run on 8 equal luminances with the outlier in the middle position
C8_Witness ==
    /\ sortpc = "sorted"
    /\ OutlierAt(4)
    /\ p[4].idx # 4 /\ p[4].luma = lumas[0]

(***************************************************************************)
(* Claims about AutoExposure (SpecExposure).                               *)
(***************************************************************************)
InRange(a, lo, hi) == ~isnan(a) /\ lo <= a /\ a <= hi

\* b lies between a and c, ends included
Between(a, b, c) == ~isnan(b) /\ ((a <= b /\ b <= c) \/ (c <= b /\ b <= a))

(* C4: after any number of AutoExposure calls from the startup state, the  *)
(* smoothed average luminance exposure[1] and the smoothed bright          *)
(* luminance exposure[2] both lie within [0.1, 10.0].  (The model's        *)
(* sequences count from 1: exposure[k] of the code is exposure[k + 1].)    *)
C4_LuminancesInRange ==
    /\ InRange(exposure[2], 100, 10000)
    /\ InRange(exposure[3], 100, 10000)

(* C5, as claimed: in every reachable exposure state, the startup state    *)
(* included, the exposure value EV (exposure[0]) is strictly positive.     *)
C5_EVAlwaysPositive == FGt(exposure[1], 0)

(* C5, amended: in every exposure state written by AutoExposure (after at  *)
(* least one call), EV is strictly positive and finite; the startup state  *)
(* itself holds EV = 0.0.                                                  *)
C5_EVPositiveAfterUpdate ==
    /\ frames = 0 => exposure[1] = 0
    /\ frames > 0 => FGt(exposure[1], 0) /\ isfinite(exposure[1])

\* AutoExposure has run on an all-dark scene until the average luminance sits at
\* its lower clamp, where EV is largest
C5_Witness ==
    /\ frames > 0
    /\ exposure[2] = 100
    /\ FGt(exposure[1], 0)

HistFinished ==
    /\ histDone = InBounds(histSize)
    /\ \A block \in Blocks(histSize) :
           (\E idx \in Threads(histSize) : BlockOf(idx) = block /\ OutOfBounds(idx, histSize))
               => block \in histOut

(* C2: from an all-zero histogram, in every interleaving, each counter b   *)
(* holds the number of in-bounds pixels of bucket b whose thread has run   *)
(* (threads outside the image change no counter); so after all threads     *)
(* have finished each counter is the number of in-bounds pixels of its     *)
(* bucket and the 64 counters sum to width*height.                         *)
C2_HistogramCountsExact ==
    histogram # <<>> =>
        /\ \A b \in 0..63 :
               histogram[b] = Cardinality({idx \in histDone : fBucket(pixels[idx]) = b})
        /\ HistFinished =>
               /\ \A b \in 0..63 :
                      histogram[b] =
                          Cardinality({idx \in InBounds(histSize) : fBucket(pixels[idx]) = b})
               /\ SumOver(histogram, 0..63) = histSize.x * histSize.y

\* a finished launch of the largest image, two rows, all pixels in one bucket
C2_Witness ==
    /\ histogram # <<>>
    /\ HistFinished
    /\ histSize.y = 2
    /\ histSize.x * histSize.y = MaxHistPixels
    /\ histOut # {}
    /\ \E b \in 0..63 : histogram[b] = MaxHistPixels

(***************************************************************************)
(* Claims about the buffer accesses (SpecAccess).                          *)
(***************************************************************************)
InBuffer(a) == 0 <= a.x /\ a.x < a.size.x /\ 0 <= a.y /\ a.y < a.size.y

(* C1: in every kernel, every load and store a thread issues is at a       *)
(* coordinate inside the buffer accessed, and a thread whose coordinate    *)
(* is outside the image issues no access at all.                           *)
C1_AllAccessesInBounds ==
    accThread # <<>> =>
        /\ \A a \in accLoads \cup accStores : InBuffer(a)
        /\ (accKernel # "BloomGuassian" /\ OutOfBounds(Idx(accThread), accSize))
               => accLoads \cup accStores = {}

(***************************************************************************)
(* Claims about MedianFilter (SpecMedian).                                 *)
(***************************************************************************)
AllStored == \A b \in DOMAIN medPhase : medPhase[b] = "stored"

\* what MedianFilter stores at a pixel when its block loads the stage's input
FilteredInput(pix) ==
    LET b == BlockOf(pix)
        tile == LoadTile(colorInput, normalDepthBuffer, b[1], b[2], medSize, boundaryMode)
        tx == pix[1] - b[1] * blockdim
        ty == pix[2] - b[2] * blockdim
    IN  IF pix \in StoringPixels(tile, b, medSize)
        THEN StoredValue(FinalColor(tile, tx, ty), Center(tile, tx, ty).mask)
        ELSE colorInput[pix]

(* C3: the value MedianFilter leaves at a pixel is the same for every      *)
(* order in which the blocks execute: it is what the filter computes from  *)
(* the buffer as the stage received it, no block reading what another      *)
(* block has written.                                                      *)
C3_StoredValueOrderIndependent ==
    AllStored => \A pix \in DOMAIN colorBuffer : colorBuffer[pix] = FilteredInput(pix)

InputConstant ==
    \A pix, other \in DOMAIN colorInput :
        /\ colorInput[pix] = colorInput[other]
        /\ normalDepthBuffer[pix] = normalDepthBuffer[other]

(* C9: on an input with the same color, depth, normal and mask at every    *)
(* pixel, MedianFilter leaves at every pixel, border included, the input   *)
(* color and mask.                                                         *)
C9_ConstantInputUnchanged ==
    (InputConstant /\ AllStored) => colorBuffer = colorInput

NonFinite(color) == \E k \in 1..3 : ~isfinite(color[k])

C11_OutputIsAverage ==
    downOut # <<>> => downOut[1] = ToHalf(DownAverage(downImage))

\* C16: no thread reads a shared-tile cell for either reduction level before
\* the thread owning the cell has made the store that level needs.
C16_NoReadBeforeOwnersStore == downRaces = {}

(***************************************************************************)
(* Claims about the bloom chain (SpecBloom).                               *)
(***************************************************************************)
\* the frame is dark except for one pixel brighter than exposure[2]
OneBrightPixel ==
    \E spot \in Square(blSize) :
        /\ FGt(blFrame[spot], blBright)
        /\ \A q \in Square(blSize) \ {spot} : blFrame[q] = 0

HasEnergy(buffer) == \E q \in DOMAIN buffer : buffer[q] # 0

\* C12: for a frame that is dark except for one pixel brighter than the
\* smoothed bright luminance, both bloom buffers hold a non-zero pixel after
\* DownScale4 and BloomGuassian, and Bloom raises at least one pixel of the
\* color buffer.
C12_BrightPixelBlooms ==
    (blStage = "done" /\ OneBrightPixel) =>
        /\ HasEnergy(blBloom4)
        /\ HasEnergy(blBloom16)
        /\ \E q \in Square(blSize) : FGt(blOut[q], blFrame[q])

(***************************************************************************)
(* Claims about ToneMapping (SpecTone).                                    *)
(***************************************************************************)
\* C13: for every exposure value, a pixel that is zero in all three channels
\* is stored as zero in all three channels.
C13_BlackStaysBlack ==
    (toneStored # <<>> /\ toneColor = <<B32Zero, B32Zero, B32Zero>>) =>
        toneStored = <<B32Zero, B32Zero, B32Zero>>

(***************************************************************************)
(* Claims about RayTracer::init and Buffer2D::init (SpecInit).             *)
(***************************************************************************)
\* C14: when a checked call of init returns a status other than success, the
\* process exits with that status at that call, and no later call of init is
\* made.
C14_FailureExitsAtTheCall ==
    /\ \A i \in 1..Len(initLog) :
          initLog[i].code # cudaSuccess =>
              (i = Len(initLog) /\ initExit = <<initLog[i].code>>)
    /\ initExit # <<>> =>
          (initLog # <<>> /\ initLog[Len(initLog)].code = initExit[1])

\* surface creation fails with cudaErrorMemoryAllocation after the ten arrays
C14_Witness ==
    /\ initFunction = "RayTracer::init"
    /\ Len(initLog) = 11
    /\ initLog[11].call = "cudaCreateSurfaceObject"
    /\ initExit = <<2>>

(***************************************************************************)
(* Claims about CopyToOutput (SpecCopy).                                   *)
(***************************************************************************)
\* m * 2^e with m odd (or zero), the same number as the float a >= 0
RECURSIVE OddForm(_, _)
OddForm(mant, e) == IF mant = 0 \/ mant % 2 = 1 THEN <<mant, e>> ELSE OddForm(mant \div 2, e + 1)

\* clamp(v, 0, 1) as a number
Clamp01(v) == IF v[1] <= 0 THEN B32Zero ELSE IF B32Lt(B32Int(1), v) THEN B32Int(1) ELSE v

\* the integer part of c * 255 + 1/2, in exact arithmetic, for 0 <= c <= 1
NearestOf255(c) ==
    LET o == OddForm(c[1], c[2])
        n == o[1] * 255
    IN  IF o[2] >= 0 THEN n * 2^o[2]
        ELSE IF 0 - o[2] > 30 THEN 0
        ELSE (n + 2^((0 - o[2]) - 1)) \div 2^(0 - o[2])

\* twice the distance of the integer k from c * 255 is at most 1:
\* |2 * c * 255 - 2 * k| <= 1, in units of 2^e of the odd form
IsNearestTo255(k, c) ==
    LET o == OddForm(c[1], c[2])
        s == 0 - o[2]
    IN  IF s <= 0 THEN k = o[1] * 255 * 2^(0 - s)
        ELSE IF s > 20 THEN k = 0
        ELSE Abs(2 * o[1] * 255 - 2 * k * 2^s) <= 2^s

\* C15: each byte written is the integer part of clamp(v, 0, 1) * 255 + 0.5,
\* lies in 0..255 and is an integer nearest to clamp(v, 0, 1) * 255; the
\* write goes to the thread's pixel, and only for a thread inside outSize.
C15_QuantizedToNearestByte ==
    /\ copyWritten # <<>> =>
          /\ \A k \in 1..3 :
                /\ copyWritten[1].bytes[k] = NearestOf255(Clamp01(copyColor[k]))
                /\ copyWritten[1].bytes[k] \in 0..255
                /\ IsNearestTo255(copyWritten[1].bytes[k], Clamp01(copyColor[k]))
          /\ <<copyWritten[1].x, copyWritten[1].y>> = Idx(copyThread)
          /\ ~OutOfBounds(Idx(copyThread), copySize)
    /\ (copyDone /\ OutOfBounds(Idx(copyThread), copySize)) => copyWritten = <<>>
    /\ (copyDone /\ ~OutOfBounds(Idx(copyThread), copySize)) => copyWritten # <<>>

\* the tie 0.5 * 255 = 127.5 is written as 128, and 1021/1024 * 255 = 254.25
\* as 254
C15_Witness ==
    /\ copyWritten # <<>>
    /\ copyColor[1] = B32Lit(1, 2)
    /\ copyWritten[1].bytes[1] = 128
    /\ copyColor[3] = B32Lit(1021, 1024)
    /\ copyWritten[1].bytes[3] = 254

(***************************************************************************)
(* Claims about MedianFilter's barrier (SpecSync).                         *)
(***************************************************************************)
\* the store the code makes to tile cell c
SyncOwner(c) ==
    IF c < blockdim * blockdim THEN <<c, 1>> ELSE <<c - blockdim * blockdim, 2>>

\* C17: each of the 100 tile cells is written exactly once before the
\* barrier, cells 0..63 by the first load of threads 0..63 and cells 64..99
\* by the second load of threads 0..35; every thread reaches the barrier,
\* those outside the image returning only after it; no thread reads the tile
\* before all threads are through the barrier.
C17_TileCompleteBeforeReads ==
    /\ \A c \in SyncCells : syncWriters[c] \subseteq {SyncOwner(c)}
    /\ syncReleased => \A c \in SyncCells : syncWriters[c] = {SyncOwner(c)}
    /\ \A id \in SyncIds : syncPc[id] \in {"guard", "read", "done"} => syncReleased
    /\ syncEarly = {}
    /\ ~(ENABLED NextSync) => \A id \in SyncIds : syncPc[id] = "done"

\* a freely scheduled thread outside the image has returned, after a thread
\* inside has read the tile
C17_Witness ==
    /\ syncSize = [x |-> 5, y |-> 8]
    /\ syncFree = {7}
    /\ \A id \in SyncIds : syncPc[id] = "done"
    /\ syncWriters[99] = {<<35, 2>>}

CumulativeMass(histo, k) == 10 * SumOver(histo, 0..k)

\* the first bucket at which the cumulative mass exceeds 0.9 of the area
FirstAbove90(histo, area) ==
    CHOOSE k \in 0..63 :
        /\ CumulativeMass(histo, k) > 9 * area
        /\ \A j \in 0..(k - 1) : CumulativeMass(histo, j) <= 9 * area

\* C19: for every valid histogram the bright-cut bucket chosen by
\* AutoExposure, whose luminance becomes the instantaneous bright
\* luminance, is the first bucket k at which the cumulative mass of buckets
\* 0..k, each bucket counted once, exceeds 0.9 of the area.
C19_BrightCutAtFirstCrossing ==
    ae.valid =>
        /\ ae.brightBroke
        /\ ae.brightIdx = FirstAbove90(ae.histogram, ae.area)
        /\ ae.brightLum = BinToLum(FirstAbove90(ae.histogram, ae.area))

(***************************************************************************)
(* Claims about MedianFilter's median candidate (SpecMedian).              *)
(***************************************************************************)
\* the tile cell of the neighbour with index k = j + 3 * i in the 3 x 3
\* neighbourhood of thread (tx, ty): (tx + j) + (ty + i) * 10
NeighbourCell(tx, ty, k) == tx + (k % kernelDim) + (ty + (k \div kernelDim)) * ldsBlockdim

\* the threads of block b whose pixel is processed
ProcessedThreads(tile, b, size) ==
    {t \in (0..(blockdim - 1)) \X (0..(blockdim - 1)) :
        PixelOf(b, t[1], t[2]) \in StoringPixels(tile, b, size)}

\* C20: for every thread (tx, ty) of MedianFilter whose pixel is processed,
\* the color, depth, normal and mask used as the median candidate are those
\* of the tile cell (tx + j) + (ty + i) * 10 of the median-ranked neighbour,
\* j + 3 * i being the index sort9 returns at rank 4, and the color the
\* thread blends is computed from that sample.
C20_CandidateIsMedianNeighbour ==
    \A b \in DOMAIN sharedBuffer :
        sharedBuffer[b] # <<>> =>
            \A t \in ProcessedThreads(sharedBuffer[b], b, medSize) :
                LET tile == sharedBuffer[b]
                    k == MedianColorIdx(tile, t[1], t[2])
                    used == tile[k]
                    neighbour == tile[NeighbourCell(t[1], t[2], k)]
                    pix == PixelOf(b, t[1], t[2])
                IN  /\ used = neighbour
                    /\ blended[pix] # <<>> =>
                           blended[pix] = lerp3f(neighbour.color,
                                                 lerp3f(Center(tile, t[1], t[2]).color,
                                                        neighbour.color,
                                                        BlendWeight(Center(tile, t[1], t[2]),
                                                                    neighbour)),
                                                 500)

(***************************************************************************)
(* Claims about MedianFilter's final blend (SpecBlend).                    *)
(***************************************************************************)
\* the distance of two channel values
Dist(a, b) == IF a >= b THEN a - b ELSE b - a

\* C21, as claimed: for every weight in [0, 1], original color o and median
\* color m, the final color lies between o and m, and is displaced from o
\* toward m by at most 50% of (m - o).
C21_PullAtMostHalf ==
    blendFinal # <<>> =>
        \A k \in 1..3 :
            /\ Between(blendOrig[k], blendFinal[k], blendMedian[k])
            /\ 2 * Dist(blendFinal[k], blendOrig[k]) <= Dist(blendMedian[k], blendOrig[k])

\* C21, amended: the final color lies between o and m, and is displaced
\* from o toward m by (1 + weight) / 2 of (m - o): at least 50%, and all
\* the way to m when the weight is 1.
C21_PullAtLeastHalf ==
    blendFinal # <<>> =>
        \A k \in 1..3 :
            /\ Between(blendOrig[k], blendFinal[k], blendMedian[k])
            /\ 2 * Unit * (blendFinal[k] - blendOrig[k])
                   = (Unit + blendWeight) * (blendMedian[k] - blendOrig[k])
            /\ 2 * Dist(blendFinal[k], blendOrig[k]) >= Dist(blendMedian[k], blendOrig[k])

\* a blend with weight 1 between two different colors: the final color is
\* the median color
C21_Witness ==
    /\ blendFinal # <<>>
    /\ blendWeight = Unit
    /\ blendOrig = Float3(160)
    /\ blendMedian = <<160, 1600, 16000>>
    /\ blendFinal = blendMedian

(***************************************************************************)
(* Claims about the pixels MedianFilter skips and the mask it stores       *)
(* (SpecMedian).                                                           *)
(***************************************************************************)
\* C22: a pixel whose depth is at or beyond RayMax is never stored to by
\* MedianFilter: its color and mask stay as on input; and every pixel
\* that is stored keeps the mask it had on input.
C22_NoHitSkippedMaskKept ==
    \A pix \in DOMAIN colorBuffer :
        /\ FGe(normalDepthBuffer[pix].depth, RayMax) =>
               /\ blended[pix] = <<>>
               /\ colorBuffer[pix] = colorInput[pix]
        /\ blended[pix] # <<>> => colorBuffer[pix].mask = colorInput[pix].mask

\* all blocks have stored: a no-hit pixel is as on input, and the pixel
\* below it was stored with a new color and its own mask, which is not
\* the mask of the sample it was blended with
C22_Witness ==
    /\ AllStored
    /\ medSize = [x |-> 1, y |-> blockdim + 1]
    /\ normalDepthBuffer[<<0, 7>>].depth = RayMax
    /\ colorBuffer[<<0, 7>>] = colorInput[<<0, 7>>]
    /\ colorInput[<<0, 7>>].mask = 0
    /\ blended[<<0, 8>>] # <<>>
    /\ colorBuffer[<<0, 8>>].color # colorInput[<<0, 8>>].color
    /\ colorBuffer[<<0, 8>>].mask = 1

(***************************************************************************)
(* Claims about LensFlarePred (SpecFlare).                                 *)
(***************************************************************************)
\* the depth LensFlarePred loads at sunUv
SunDepth ==
    Load2DHalf1(flareDepth, flareSunUv[1], flareSunUv[2], flareSize, flareMode)

SunInside == flareSunUv \in DOMAIN flareDepth

C24_BothLoopsBreak ==
    ae.valid =>
        /\ ae.darkBroke /\ ae.brightBroke
        /\ 0 <= ae.darkIdx /\ ae.darkIdx <= ae.brightIdx /\ ae.brightIdx <= 63
        /\ ae.lumiSumArea > 0
        /\ ae.brightLum = BinToLum(ae.brightIdx)
        /\ ae.brightLum > 0

\* the dark cut fell in a middle bucket, above mass it left out, and the
\* bright cut in the brightest bucket
C24_Witness ==
    /\ ae.valid
    /\ ae.darkIdx = 47
    /\ ae.brightIdx = 63
    /\ ae.histogram[0] > 0
    /\ ae.lumiSumArea = 5 * ae.area
    /\ ae.brightLum = BinToLum(63)

(***************************************************************************)
(* Claims about the stores of a BloomGuassian launch (SpecTile).           *)
(***************************************************************************)
\* C25: across the blocks of a BloomGuassian launch every output
\* coordinate is stored by at most one thread, the interior thread
\* (threadIdx 2..13) of the one block whose 12 x 12 interior contains it;
\* and every tile index the convolution reads lies in 0..15.
C25_OneStorePerPixel ==
    /\ \A c \in DOMAIN tileStores :
           /\ Cardinality(tileStores[c]) <= 1
           /\ \A w \in tileStores[c] :
                  /\ c[1] >= 0 /\ c[2] >= 0
                  /\ w.block = <<c[1] \div bloomStride, c[2] \div bloomStride>>
                  /\ w.thread = <<(c[1] % bloomStride) + 2, (c[2] % bloomStride) + 2>>
                  /\ ~GaussBorder(w.thread)
           /\ (c[1] >= 0 /\ c[2] >= 0
               /\ <<c[1] \div bloomStride, c[2] \div bloomStride>> \in tileRan)
                  => tileStores[c] # {}
    /\ tileReads \subseteq (0..(GaussBlockdim - 1)) \X (0..(GaussBlockdim - 1))

\* six blocks have run: the last column of block (0, 0) and the first
\* column of block (1, 0) were stored by different blocks, and the
\* convolutions have read the corners of the tile
C25_Witness ==
    /\ tileSize = [x |-> MaxTileW, y |-> MaxTileH]
    /\ tileRan = TileBlocks(tileSize)
    /\ Cardinality(tileRan) >= 4
    /\ tileStores[<<11, 0>>] = {[block |-> <<0, 0>>, thread |-> <<13, 2>>]}
    /\ tileStores[<<12, 0>>] = {[block |-> <<1, 0>>, thread |-> <<2, 2>>]}
    /\ {<<0, 0>>, <<15, 15>>} \subseteq tileReads

(***************************************************************************)
(* Claims about the resources of RayTracer::init (SpecRes).                *)
(***************************************************************************)
\* the resources RayTracer::init creates when every call succeeds
ResCreated == {ResInitCalls[k].res : k \in 1..Len(ResInitCalls)}

\* C26: after RayTracer::init followed by RayTracer::cleanup every device
\* array, surface object and device allocation created by init has been
\* released exactly once: none is still live, and cleanup released
\* nothing that init did not create.
C26_AllReleasedOnce ==
    resPhase = "end" =>
        /\ resLive = {}
        /\ \A r \in ResCreated :
               Cardinality({k \in 1..Len(resReleased) : resReleased[k].res = r}) = 1
        /\ \A k \in 1..Len(resReleased) :
               resReleased[k].res \in ResCreated /\ resReleased[k].live

====
